---------------------------- MODULE Spec2Model ----------------------------
(***************************************************************************)
(* A model of the crazyflie-lib client: the connection lifecycle (uplink   *)
(* pump, downlink dispatcher, disconnect), the subsystem operations that   *)
(* ride on it, and the parameter subsystem (get / set / MISC listener /    *)
(* watchers).                                                              *)
(*                                                                         *)
(* The module holds several specifications over one set of variables.      *)
(* Each specification moves the variables of one part of the library and   *)
(* leaves the others at their initial value:                               *)
(*   SpecConn, FairSpecConn   connection lifecycle and operations          *)
(*   SpecParam                parameter subsystem                          *)
(*   SpecReq, FairSpecReq     request / response calls of the link service *)
(*                            and of the platform                          *)
(*   SpecLog                  log subsystem: block lifecycle, data routing *)
(*   SpecMem                  memory subsystem: typed views, read / write  *)
(*   SpecToc                  TOC discovery with a shared cache            *)
(*   SpecPure                 packet construction and timestamp decoding   *)
(*   SpecConsole              console task and its streams                 *)
(*   SpecSup                  concurrent Supervisor::read_bitfield calls   *)
(*   SpecConnect,             connect_from_link after the tasks were       *)
(*     FairSpecConnect        spawned, with its error returns              *)
(*   SpecAdd                  LogBlock::add_variable on one block          *)
(*   SpecRoute                inbound routing by port and channel          *)
(*   SpecUplink               the uplink queue, packets told apart         *)
(*   SpecMisc                 the param MISC listener on raw payloads      *)
(*   SpecDiscover             memory discovery and open_memory             *)
(*   SpecPersist              lighthouse persistence confirmations         *)
(***************************************************************************)
EXTENDS Naturals, Integers, Sequences, FiniteSets, TLC

(***************************************************************************)
(* Bounds of the model.                                                    *)
(***************************************************************************)
\* number of calls of disconnect() / wait_disconnect() made over the connection
MaxCalls == 2
\* number of calls of Param::set
MaxSets == 1
\* number of parameter changes the device makes and announces on its own
MaxUpdates == 1
\* number of calls of Param::watch_change
MaxWatchers == 2
\* number of request / response calls made to the link service and the platform
MaxReqs == 3
\* number of calls of Log::create_block
MaxBlocks == 2
\* number of data packets the device sends
MaxSamples == 2
\* number of add_variable / start calls on one LogBlock
MaxBlockOps == 1
\* number of calls of open_memory / initialize_memory
MaxOpens == 3
\* the odd start address and the longest length of a memory read / write
MaxAddr == 7
MaxLen == 50
\* number of items in a TOC of the device
MaxItems == 2
\* number of calls of fetch_toc made with one cache
MaxFetch == 3
\* the longest byte vector the application hands to a packet-building call
MaxData == 33
\* number of console packets the device sends
MaxPackets == 3
\* number of calls of Supervisor::read_bitfield
MaxReads == 3
\* number of add_variable() calls on the block
MaxAdds == 2
\* number of packets the link receives
MaxInbound == 3
\* number of packets one task puts on the uplink queue
MaxEnqueue == 2
\* number of frames the device sends on the MISC channel
MaxFrames == 2
\* number of memories the device reports
MaxMems == 3
\* number of persist_lighthouse_data() calls
MaxPersist == 2

(***************************************************************************)
(* Constants of the program.                                               *)
(***************************************************************************)
READ_CHANNEL == 1
WRITE_CHANNEL == 2
MISC_CHANNEL == 3
MISC_VALUE_UPDATED == 1
MISC_PERSISTENT_GET_STATE == 4
U8_MAX == 255
DELETE_BLOCK == 2
START_BLOCK == 3
CREATE_BLOCK_V2 == 6
APPEND_BLOCK_V2 == 7
MEM_MAX_REQUEST_SIZE == 24
TOC_GET_ITEM == 2
TOC_CACHE_VERSION == 1
APPCHANNEL_MTU == 31
LPS_SHORT_LPP_PACKET == 2
BROADCAST_CAP == 1000
PARAM_PORT == 2
PERSIST_CAP == 10
CMD_INFO_NBR == 1
CMD_INFO_DETAILS == 2
GENERIC_SETPOINT_PORT == 7
PLATFORM_PORT == 13

VARIABLES
    \* ---- connection (crazyflie.rs) ----
    disconnect,      \* Crazyflie.disconnect: the AtomicBool flag
    link,            \* state of the crazyflie_link::Connection: open / lost / closed
    closeCalls,      \* number of invocations of link.close()
    uplink_task,     \* Crazyflie.uplink_task: Option<JoinHandle>, "Some" / "None"
    dispatch_task,   \* Crazyflie.dispatch_task: Option<JoinHandle>
    task_lock,       \* holder of the two futures Mutexes around the handles (0: free)
    joins,           \* how many times each JoinHandle has been awaited
    uplink_pc,       \* position of the uplink pump task
    dispatch_pc,     \* position of the downlink dispatcher task
    uplink_q,        \* the unbounded uplink queue (requests of the operations)
    link_rx,         \* packets the link holds for recv_packet()
    dc_pc,           \* position of each caller of disconnect() / wait_disconnect()
    dc_started,      \* calls of disconnect() / wait_disconnect() started so far
    dc_done,         \* calls of disconnect() that have returned
    cur,             \* the subsystem operation the application uses in this run
    \* ---- subsystem operations over the connection ----
    chd,             \* the crtp_channel_dispatcher task of cur's port, run / done
    stage2,          \* the id-keyed second fan-out task (memory, log data), run / done
    rp,              \* where the packet of cur's exchange is: none / upq / dev / link / port / chan / back
    op,              \* the operation's call: [pc, res, after, sent, src]
    values_c,        \* Param.values entry of the parameter read by param_get
    sup_cached,      \* Supervisor.cached_bitfield is Some
    sup_fresh,       \* now - last_fetch_time < cache_timeout_ms
    \* ---- parameter subsystem (subsystems/param.rs) ----
    values,          \* Param.values entry of the parameter: "None" or the value
    watchers,        \* Param.watchers: the Vec of senders, as watcher ids
    dropped,         \* watchers whose receiving stream has been dropped
    inbox,           \* what each watcher's stream has been sent: <<value, set number>>
    p_uplink,        \* requests on their way to the device, in order
    p_downlink,      \* frames of the param port, in device send order
    read_downlink,   \* channel 1 receiver (Param.read_downlink)
    write_downlink,  \* channel 2 receiver (Param.write_downlink)
    misc_downlink,   \* channel 3 receiver, owned by the MISC listener task
    misc_cmd,        \* misc_cmd_tx -> Param.misc_downlink: command responses
    dev,             \* the device: [val, last, upd, n]
    set_c,           \* the set caller: [pc, val, n, res]
    get_c,           \* the get caller: [pc, res, read, ctx]
    misc_l,          \* the MISC listener task: [pc, pk]
    cmd_c,           \* the persistence-command caller: [pc, ret]
    hist,            \* history: [fresh, applied, sets, reg]
    \* ---- request / response calls (link_service.rs, platform.rs) ----
    rq,              \* the caller: [pc, kind, id, res, from]
    rq_up,           \* requests the device has not answered
    echo_downlink,   \* LinkService.echo_downlink: the echoes received
    version_downlink, \* the receiver of Platform.version_comm: the answers received
    \* ---- log subsystem (crazyflie-lib/src/log.rs) ----
    next_block_id,   \* Log.next_block_id: the u8 counter
    active_blocks,   \* Log.active_blocks: the block ids that have a Weak canary entry
    data_channels,   \* Log.data_channels: the block ids that have a data sender
    log_blocks,      \* the live LogBlock / LogStream objects: id -> [pc, kind, ops]
    ctl_lock,        \* holder of the Log.control_downlink mutex (<<>>: free)
    ab_lock,         \* holder of the Log.active_blocks mutex (0: free)
    cb,              \* each caller of create_block(): [pc, id, todo, del, dead0]
    cb_calls,        \* calls of create_block() started so far
    l_uplink,        \* log control requests the device has not handled
    control_downlink, \* the channel 1 receiver: replies <<cmd, id, status>>
    data_downlink,   \* the channel 2 receiver of the data dispatcher: block ids
    samples,         \* data packets the device has sent so far
    dev_blocks,      \* the device: block ids that exist
    dev_run,         \* the device: block ids that are started
    router,          \* the data dispatcher task: run / done
    lhist,           \* history: [alloc, ret, acked, got, failed, dropped]
    \* ---- memory subsystem (subsystems/memory) ----
    backends,        \* Memory.backends: per memory the Option<MemoryBackend> of its slot
    mc,              \* each caller of open_memory / close_memory: [pc, mem, view, res]
    mem_calls,       \* calls of open_memory / initialize_memory started so far
    io,              \* the read / write call running on the open backend
    mem_uplink,      \* memory requests the device has not handled
    mem_read_downlink,  \* MemoryBackend.read_downlink of the backend
    mem_write_downlink,  \* MemoryBackend.write_downlink of the backend
    \* ---- TOC discovery (crtp_utils.rs fetch_toc) ----
    tc,              \* each subsystem's fetch_toc call: [pc, len, crc, i, toc, bad, res]
    toc_cache,       \* the TocCache shared by the subsystems: key -> stored TOC string
    dev_crc,         \* the device: the CRC32 it reports for the TOC of each port
    fetches,         \* calls of fetch_toc started so far
    tdone,           \* history: the discoveries that returned, [kind, key, hit, res, toc]
    \* ---- packet construction and decoding (platform, localization, log) ----
    call,            \* the function applied in this run and its argument: [op, arg]
    ret,             \* what the call returned or enqueued on the uplink; None before
    \* ---- console subsystem (subsystems/console.rs) ----
    console_buffer,  \* Console.console_buffer: the text received since connection
    console_lines,   \* Console.console_lines: the completed lines since connection
    line_buffer,     \* the console task's text after the last extracted line
    stream_q,        \* messages queued in the chunk broadcast channel
    line_q,          \* messages queued in the line broadcast channel
    con,             \* the console task: [pc, text, n]
    cs,              \* the stream handed to the application: [kind, history, pos]
    \* ---- supervisor subsystem (subsystems/supervisor.rs) ----
    sv,              \* each caller of read_bitfield: [pc, res]
    info_lock,       \* holder of the Supervisor.info_downlink mutex (0: free)
    sup_uplink,      \* supervisor requests the device has not answered
    info_downlink,   \* replies queued in Supervisor.info_downlink
    sup_reads,       \* calls of read_bitfield started so far
    \* ---- connection set-up (crazyflie.rs connect_from_link) ----
    cn,              \* connect_from_link: its position, "ok" or the error returned
    \* ---- LogBlock::add_variable (crazyflie-lib/src/log.rs) ----
    av,              \* the add_variable() call on the block: pc, name, result, calls made
    variables,       \* LogBlock.variables: the names pushed, in order
    dev_variables,   \* the variable ids the device has appended to the block
    av_uplink,       \* APPEND_BLOCK_V2 requests on their way to the device
    av_downlink,     \* replies in the control channel's receiver
    \* ---- inbound routing (crtp_utils.rs CrtpDispatch::run, crtp_channel_dispatcher) ----
    rt_link,         \* the link: "open" or "closed"
    rt_in,           \* packets the link has received, not yet taken by the dispatcher
    rt_all,          \* every packet the link has received so far
    port_rx,         \* per registered port: the content of its port channel
    chan_rx,         \* per registered port and sender index: the content of that channel
    rt_pc,           \* the dispatcher task and the fan-out task of each port
    \* ---- the uplink queue with the packets told apart (crazyflie.rs) ----
    up_q,            \* the flume channel behind `uplink`
    up_tx,           \* the packets handed to link.send_packet, in order
    up_n,            \* per sending task: the number of packets it has enqueued
    up_pc,           \* the uplink task: "loop", "recv", "done"
    up_flag,         \* the disconnect flag
    up_link,         \* "open", or "lost": send_packet returns an error
    \* ---- the param MISC listener on raw frames (subsystems/param.rs) ----
    mf_in,           \* misc_downlink: the payloads waiting for the listener
    mf_pc,           \* the listener task: "run" or "panicked"
    mf_values,       \* values[param] of the one parameter of the TOC
    mf_cmd,          \* the payloads forwarded to misc_cmd_tx
    mf_n,            \* the number of frames the device has sent
    \* ---- memory discovery (subsystems/memory/mod.rs update_memories) ----
    md,              \* update_memories: pc, the loop index i, memory_count
    memories,        \* Memory.memories: the MemoryDevice of each discovered memory
    md_backends,     \* Memory.backends: Some(backend) or None (on loan), in push order
    md_uplink,       \* INFO requests on their way to the device
    md_downlink,     \* INFO replies waiting in info_channel_downlink
    loans,           \* the open_memory() calls that returned a backend
    \* ---- lighthouse persistence (subsystems/localization.rs) ----
    lh,              \* the persist_lighthouse_data() call: pc, its number, its result
                     \* and the request the returned confirmation answers
    persist_receiver,\* the messages queued for Lighthouse.persist_receiver
    lh_clone,        \* the messages queued for the call's clone of it
    lh_uplink,       \* persist requests on their way to the device
    lh_downlink      \* confirmations waiting for the localization task

connVars == <<disconnect, link, closeCalls, uplink_task, dispatch_task, task_lock,
              joins, uplink_pc, dispatch_pc, uplink_q, link_rx, dc_pc, dc_started,
              dc_done, cur>>
opVars   == <<chd, stage2, rp, op, values_c, sup_cached, sup_fresh>>

paramVars == <<values, watchers, dropped, inbox, p_uplink, p_downlink, read_downlink,
               write_downlink, misc_downlink, misc_cmd, dev, set_c, get_c, misc_l,
               cmd_c, hist>>

reqVars == <<rq, rq_up, echo_downlink, version_downlink>>

logVars == <<next_block_id, active_blocks, data_channels, log_blocks, ctl_lock, ab_lock,
             cb, cb_calls, l_uplink, control_downlink, data_downlink, samples,
             dev_blocks, dev_run, router, lhist>>

memVars == <<backends, mc, mem_calls, io, mem_uplink, mem_read_downlink,
             mem_write_downlink>>

tocVars == <<tc, toc_cache, dev_crc, fetches, tdone>>

\* the state of the parts modelled after the memory subsystem
pureVars == <<call, ret>>

consoleVars == <<console_buffer, console_lines, line_buffer, stream_q, line_q, con, cs>>

supVars == <<sv, info_lock, sup_uplink, info_downlink, sup_reads>>

\* the state of the parts modelled after the supervisor
connectVars == <<cn>>

addVars == <<av, variables, dev_variables, av_uplink, av_downlink>>

routeVars == <<rt_link, rt_in, rt_all, port_rx, chan_rx, rt_pc>>

uplinkVars == <<up_q, up_tx, up_n, up_pc, up_flag, up_link>>

miscVars == <<mf_in, mf_pc, mf_values, mf_cmd, mf_n>>

discoverVars == <<md, memories, md_backends, md_uplink, md_downlink, loans>>

persistVars == <<lh, persist_receiver, lh_clone, lh_uplink, lh_downlink>>

moreVars == <<connectVars, addVars, routeVars, uplinkVars, miscVars, discoverVars,
             persistVars>>

\* everything modelled before the connection set-up
baseVars == <<connVars, opVars, paramVars, reqVars, logVars, memVars, tocVars, pureVars,
             consoleVars, supVars>>

extVars == <<tocVars, pureVars, consoleVars, supVars, moreVars>>

restVars == <<paramVars, reqVars, logVars, memVars, extVars>>

vars == <<connVars, opVars, paramVars, reqVars, logVars, memVars, extVars>>

\* the application tasks that may call disconnect() / wait_disconnect()
Callers == {1, 2}

\* some call of disconnect() has returned
DcReturned == dc_done > 0

\* The operations of the connection model, one per kind of wait.
Ops == {"param_get", "sup_read", "mem_read", "log_next"}

\* Operations whose receiver is fed by an id-keyed second fan-out task whose
\* sender map is also owned by the subsystem struct.
TwoStage == {"mem_read", "log_next"}

(***************************************************************************)
(* Channels.  A flume receiver reports Disconnected once every sender is   *)
(* dropped and the queue is empty.                                         *)
(***************************************************************************)
\* (variant: the uplink receiver outlives the uplink task)
UplinkRxKept == TRUE

\* uplink rx lives in the uplink task: dropped when the task returns
UplinkRxAlive == uplink_pc # "done"

\* (variant: the per-port senders outlive the dispatcher task)
PortKept == FALSE

\* the per-port sender lives in CrtpDispatch, moved into the dispatcher task
PortClosed == dispatch_pc = "done" /\ rp # "port"

\* the four per-channel senders live in the crtp_channel_dispatcher task
ChanClosed == chd = "done" /\ rp # "chan"

\* MemoryDispatcher.senders and Log.data_channels are Arc-shared with the
\* subsystem struct, which outlives its task: the sender is never dropped
BackClosed == FALSE


(***************************************************************************)
(* Initial state: connect_from_link has returned Ok(Crazyflie).            *)
(***************************************************************************)
InitConnVars ==
    /\ disconnect = FALSE
    /\ link = "open"
    /\ closeCalls = 0
    /\ uplink_task = "Some"
    /\ dispatch_task = "Some"
    /\ task_lock = [uplink |-> 0, dispatch |-> 0]
    /\ joins = [uplink |-> 0, dispatch |-> 0]
    /\ uplink_pc = "loop"
    /\ dispatch_pc = "loop"
    /\ uplink_q = <<>>
    /\ link_rx = <<>>
    /\ dc_pc = [c \in Callers |-> "idle"]
    /\ dc_started = 0
    /\ dc_done = 0

IdleOp == [pc |-> "idle", res |-> "none", after |-> FALSE, sent |-> FALSE, src |-> "none"]

InitOpVars ==
    /\ chd = "run"
    /\ stage2 = "run"
    /\ rp = "none"
    /\ op = IdleOp
    /\ values_c = "None"
    /\ sup_cached = FALSE
    /\ sup_fresh = FALSE

(***************************************************************************)
(* Initial state of the parameter subsystem: Param::new has fetched the    *)
(* TOC, no value has been read yet, the MISC listener is running.          *)
(***************************************************************************)
\* the values written and announced in the model
Vals == {5, 7}

\* Option<Value>
None == <<>>
Some(v) == <<v>>

NoPk == [ch |-> 0, cmd |-> 0, val |-> 0]

InitParamVars ==
    /\ values = None
    /\ watchers = <<>>
    /\ dropped = {}
    /\ inbox = [w \in 1..MaxWatchers |-> <<>>]
    /\ p_uplink = <<>>
    /\ p_downlink = <<>>
    /\ read_downlink = <<>>
    /\ write_downlink = <<>>
    /\ misc_downlink = <<>>
    /\ misc_cmd = <<>>
    /\ dev = [val |-> 5, last |-> None, upd |-> FALSE, n |-> 0]
    /\ set_c = [pc |-> "idle", val |-> 0, n |-> 0, res |-> "none"]
    /\ get_c = [pc |-> "idle", res |-> None, read |-> FALSE, ctx |-> None]
    /\ misc_l = [pc |-> "recv", pk |-> NoPk]
    /\ cmd_c = [pc |-> "idle", ret |-> 0]
    /\ hist = [fresh |-> None, applied |-> {}, sets |-> {}, reg |-> 0]

(***************************************************************************)
(* Initial state of the link service and the platform: no call made yet.   *)
(***************************************************************************)
InitReqVars ==
    /\ rq = [pc |-> "idle", kind |-> "none", id |-> 0, res |-> "none", from |-> 0]
    /\ rq_up = <<>>
    /\ echo_downlink = <<>>
    /\ version_downlink = <<>>

\* a create_block() call that is not running
IdleCall == [pc |-> "idle", id |-> 0, todo |-> {}, del |-> 0, dead0 |-> {}]

\* Log::new: both maps empty, the device reset, the data dispatcher spawned
InitLogMaps ==
    /\ active_blocks = {}
    /\ data_channels = {}
    /\ log_blocks = <<>>
    /\ ctl_lock = <<>>
    /\ ab_lock = 0
    /\ cb = [c \in Callers |-> IdleCall]
    /\ cb_calls = 0
    /\ l_uplink = <<>>
    /\ control_downlink = <<>>
    /\ data_downlink = <<>>
    /\ samples = 0
    /\ dev_blocks = {}
    /\ dev_run = {}
    /\ router = "run"
    /\ lhist = [alloc |-> <<>>, ret |-> <<>>, acked |-> {}, got |-> {}, failed |-> {},
                dropped |-> {}]

\* one create_block() call has returned block 0, which the application holds
InitLogOneBlock ==
    /\ next_block_id = 1
    /\ active_blocks = {0}
    /\ data_channels = {0}
    /\ log_blocks = (0 :> [pc |-> "idle", kind |-> 0, ops |-> 0])
    /\ ctl_lock = <<>>
    /\ ab_lock = 0
    /\ cb = [c \in Callers |-> IdleCall]
    /\ cb_calls = 0
    /\ l_uplink = <<>>
    /\ control_downlink = <<>>
    /\ data_downlink = <<>>
    /\ samples = 0
    /\ dev_blocks = {0}
    /\ dev_run = {}
    /\ router = "run"
    /\ lhist = [alloc |-> <<0>>, ret |-> <<0>>, acked |-> {}, got |-> {}, failed |-> {},
                dropped |-> {}]

\* Log::new: the counter starts at 0
InitLogVars ==
    /\ next_block_id = 0
    /\ InitLogMaps

\* the memories the device reports: memory_id, equal to the discovery index
MemIds == {0, 1}

\* MemoryDevice.memory_type of each
MemType(m) == IF m = 0 THEN "OneWire" ELSE "EEPROMConfig"

\* a caller that is in no call and holds no view
IdleMem == [pc |-> "idle", mem |-> 0, ty |-> "none", view |-> None, res |-> "none"]

\* no read / write call is running
IdleIo == [kind |-> "none", pc |-> "done", mem |-> 0, address |-> 0, length |-> 0,
           current_address |-> 0, req |-> <<>>, reqs |-> <<>>, acks |-> <<>>,
           prog |-> <<>>, res |-> "none"]

\* Memory::new / update_memories: every slot holds its backend
InitMemVars ==
    /\ backends = [m \in MemIds |-> Some(m)]
    /\ mc = [c \in Callers |-> IdleMem]
    /\ mem_calls = 0
    /\ io = IdleIo
    /\ mem_uplink = <<>>
    /\ mem_read_downlink = <<>>
    /\ mem_write_downlink = <<>>

\* the subsystems that discover a TOC through fetch_toc
TocKinds == {"param", "log"}

\* the CRC32 values the device may report for a TOC
Crcs == {1, 258}

\* cache_key: the version tag followed by the little-endian bytes of the CRC32
CacheKey(crc) ==
    <<TOC_CACHE_VERSION, crc % 256, (crc \div 256) % 256, (crc \div 65536) % 256,
      (crc \div 65536) \div 256>>

IdleToc == [pc |-> "idle", len |-> 0, crc |-> 0, i |-> 0, toc |-> {}, bad |-> FALSE]

\* no discovery has run and the cache is empty
InitTocMaps ==
    /\ tc = [k \in TocKinds |-> IdleToc]
    /\ toc_cache = [key \in {CacheKey(c) : c \in Crcs} |-> None]
    /\ fetches = 0
    /\ tdone = {}

InitTocVars ==
    /\ dev_crc = [k \in TocKinds |-> 1]
    /\ InitTocMaps

\* no packet-building call is made
InitPureVars ==
    /\ call = [op |-> "none", arg |-> <<>>]
    /\ ret = None

\* Console::new has returned: nothing received, no stream handed out
InitConsoleVars ==
    /\ console_buffer = <<>>
    /\ console_lines = <<>>
    /\ line_buffer = <<>>
    /\ stream_q = <<>>
    /\ line_q = <<>>
    /\ con = [pc |-> "recv", text |-> <<>>, n |-> 0]
    /\ cs = [kind |-> "none", history |-> <<>>, pos |-> 0]

\* Supervisor::new has returned: no call is running
InitSupVars ==
    /\ sv = [c \in Callers |-> [pc |-> "idle", res |-> "none"]]
    /\ info_lock = 0
    /\ sup_uplink = <<>>
    /\ info_downlink = <<>>
    /\ sup_reads = 0

\* connect_from_link has returned Ok(Crazyflie)
InitConnectVars ==
    /\ cn = "ok"

\* a block just created: no variable added, no call running
InitAddVars ==
    /\ av = [pc |-> "idle", name |-> "none", res |-> "none", calls |-> 0]
    /\ variables = <<>>
    /\ dev_variables = <<>>
    /\ av_uplink = <<>>
    /\ av_downlink = <<>>

\* the ports whose receiver connect_from_link hands to a subsystem that
\* splits it by channel
RegPorts == {PARAM_PORT, PLATFORM_PORT}

\* dispatcher.run() and the crtp_channel_dispatcher tasks have been spawned
InitRouteVars ==
    /\ rt_link = "open"
    /\ rt_in = <<>>
    /\ rt_all = {}
    /\ port_rx = [p \in RegPorts |-> <<>>]
    /\ chan_rx = [p \in RegPorts |-> [i \in 0..3 |-> <<>>]]
    /\ rt_pc = [dispatch |-> "run", fan |-> [p \in RegPorts |-> "run"]]

\* the uplink task has been spawned, nothing was sent yet
InitUplinkVars ==
    /\ up_q = <<>>
    /\ up_tx = <<>>
    /\ up_n = [t \in Callers |-> 0]
    /\ up_pc = "loop"
    /\ up_flag = FALSE
    /\ up_link = "open"

\* spawn_misc_loop has spawned the listener; no value is cached
InitMiscVars ==
    /\ mf_in = <<>>
    /\ mf_pc = "run"
    /\ mf_values = None
    /\ mf_cmd = <<>>
    /\ mf_n = 0

\* Memory::new has built the struct with both Vecs empty and calls
\* update_memories
InitDiscoverVars ==
    /\ md = [pc |-> "start", i |-> 0, count |-> 0]
    /\ memories = <<>>
    /\ md_backends = <<>>
    /\ md_uplink = <<>>
    /\ md_downlink = <<>>
    /\ loans = {}

\* Localization::new: the broadcast channel is empty, no call was made
InitPersistVars ==
    /\ lh = [pc |-> "idle", n |-> 0, res |-> "none", from |-> 0]
    /\ persist_receiver = <<>>
    /\ lh_clone = <<>>
    /\ lh_uplink = <<>>
    /\ lh_downlink = <<>>

InitMoreVars ==
    /\ InitConnectVars
    /\ InitAddVars
    /\ InitRouteVars
    /\ InitUplinkVars
    /\ InitMiscVars
    /\ InitDiscoverVars
    /\ InitPersistVars

InitExtVars ==
    /\ InitTocVars
    /\ InitPureVars
    /\ InitConsoleVars
    /\ InitSupVars
    /\ InitMoreVars

(***************************************************************************)
(* Crazyflie::disconnect and Crazyflie::wait_disconnect.                   *)
(***************************************************************************)
\* (variant: the handle is read but left in the Option)
TakeKeeps(h) == h

\* Option::take(): the Option is left None
Take(h) == "None"

\* (variant: the MutexGuard is dropped before the task is awaited)
GuardDropped(c) == 0

\* The MutexGuard of `self.uplink_task.lock().await` is a temporary of the
\* if-let scrutinee: caller c holds the mutex until the end of the if-let block,
\* that is across the await of the JoinHandle.
GuardHeld(c) == c

\* disconnect(): self.disconnect.store(true, Relaxed)
CallDisconnect(c) ==
    /\ dc_pc[c] = "idle"
    /\ dc_started < MaxCalls
    /\ dc_started' = dc_started + 1
    /\ disconnect' = TRUE
    /\ dc_pc' = [dc_pc EXCEPT ![c] = "lock_uplink"]
    /\ UNCHANGED <<link, closeCalls, uplink_task, dispatch_task, task_lock, joins,
                   uplink_pc, dispatch_pc, uplink_q, link_rx, dc_done, cur>>
    /\ UNCHANGED opVars
    /\ UNCHANGED restVars

\* wait_disconnect(): let reason = self.link.wait_close().await
CallWaitDisconnect(c) ==
    /\ dc_pc[c] = "idle"
    /\ dc_started < MaxCalls
    /\ dc_started' = dc_started + 1
    /\ dc_pc' = [dc_pc EXCEPT ![c] = "wait_close"]
    /\ UNCHANGED <<disconnect, link, closeCalls, uplink_task, dispatch_task, task_lock,
                   joins, uplink_pc, dispatch_pc, uplink_q, link_rx, dc_done, cur>>
    /\ UNCHANGED opVars
    /\ UNCHANGED restVars

\* wait_close() resolves once the link is no longer open; then self.disconnect()
WaitCloseResolves(c) ==
    /\ dc_pc[c] = "wait_close"
    /\ link # "open"
    /\ disconnect' = TRUE
    /\ dc_pc' = [dc_pc EXCEPT ![c] = "lock_uplink"]
    /\ UNCHANGED <<link, closeCalls, uplink_task, dispatch_task, task_lock, joins,
                   uplink_pc, dispatch_pc, uplink_q, link_rx, dc_started, dc_done, cur>>
    /\ UNCHANGED opVars
    /\ UNCHANGED restVars

\* if let Some(uplink_task) = self.uplink_task.lock().await.take() { ... }
LockUplink(c) ==
    /\ dc_pc[c] = "lock_uplink"
    /\ task_lock.uplink = 0
    /\ IF uplink_task = "Some"
       THEN /\ uplink_task' = Take(uplink_task)
            /\ task_lock' = [task_lock EXCEPT !.uplink = GuardHeld(c)]
            /\ joins' = [joins EXCEPT !.uplink = @ + 1]
            /\ dc_pc' = [dc_pc EXCEPT ![c] = "join_uplink"]
       ELSE /\ dc_pc' = [dc_pc EXCEPT ![c] = "lock_dispatch"]
            /\ UNCHANGED <<uplink_task, task_lock, joins>>
    /\ UNCHANGED <<disconnect, link, closeCalls, dispatch_task, uplink_pc, dispatch_pc,
                   uplink_q, link_rx, dc_started, dc_done, cur>>
    /\ UNCHANGED opVars
    /\ UNCHANGED restVars

\* uplink_task.await.expect("Uplink task failed"), then the guard is dropped
JoinUplink(c) ==
    /\ dc_pc[c] = "join_uplink"
    /\ uplink_pc = "done"
    /\ task_lock' = [task_lock EXCEPT !.uplink = 0]
    /\ dc_pc' = [dc_pc EXCEPT ![c] = "lock_dispatch"]
    /\ UNCHANGED <<disconnect, link, closeCalls, uplink_task, dispatch_task, joins,
                   uplink_pc, dispatch_pc, uplink_q, link_rx, dc_started, dc_done, cur>>
    /\ UNCHANGED opVars
    /\ UNCHANGED restVars

\* if let Some(dispatch_task) = self.dispatch_task.lock().await.take() { ... }
LockDispatch(c) ==
    /\ dc_pc[c] = "lock_dispatch"
    /\ task_lock.dispatch = 0
    /\ IF dispatch_task = "Some"
       THEN /\ dispatch_task' = Take(dispatch_task)
            /\ task_lock' = [task_lock EXCEPT !.dispatch = GuardHeld(c)]
            /\ joins' = [joins EXCEPT !.dispatch = @ + 1]
            /\ dc_pc' = [dc_pc EXCEPT ![c] = "join_dispatch"]
       ELSE /\ dc_pc' = [dc_pc EXCEPT ![c] = "close"]
            /\ UNCHANGED <<dispatch_task, task_lock, joins>>
    /\ UNCHANGED <<disconnect, link, closeCalls, uplink_task, uplink_pc, dispatch_pc,
                   uplink_q, link_rx, dc_started, dc_done, cur>>
    /\ UNCHANGED opVars
    /\ UNCHANGED restVars

\* dispatch_task.await.expect("Dispatcher task failed"), then the guard is dropped
JoinDispatch(c) ==
    /\ dc_pc[c] = "join_dispatch"
    /\ dispatch_pc = "done"
    /\ task_lock' = [task_lock EXCEPT !.dispatch = 0]
    /\ dc_pc' = [dc_pc EXCEPT ![c] = "close"]
    /\ UNCHANGED <<disconnect, link, closeCalls, uplink_task, dispatch_task, joins,
                   uplink_pc, dispatch_pc, uplink_q, link_rx, dc_started, dc_done, cur>>
    /\ UNCHANGED opVars
    /\ UNCHANGED restVars

\* self.link.close().await; and disconnect() returns
CloseLink(c) ==
    /\ dc_pc[c] = "close"
    /\ closeCalls' = closeCalls + 1
    /\ link' = "closed"
    /\ dc_done' = dc_done + 1
    /\ dc_pc' = [dc_pc EXCEPT ![c] = "idle"]
    /\ UNCHANGED <<disconnect, uplink_task, dispatch_task, task_lock, joins, uplink_pc,
                   dispatch_pc, uplink_q, link_rx, dc_started, cur>>
    /\ UNCHANGED opVars
    /\ UNCHANGED restVars

\* The radio link is lost on its own (out of range, dongle unplugged).
LinkLost ==
    /\ link = "open"
    /\ link' = "lost"
    /\ UNCHANGED <<disconnect, closeCalls, uplink_task, dispatch_task, task_lock, joins,
                   uplink_pc, dispatch_pc, uplink_q, link_rx, dc_pc, dc_started,
                   dc_done, cur>>
    /\ UNCHANGED opVars
    /\ UNCHANGED restVars

(***************************************************************************)
(* The uplink pump task spawned by connect_from_link.                      *)
(***************************************************************************)
\* while !disconnect_uplink.load(Relaxed) { ... }
UplinkLoop ==
    /\ uplink_pc = "loop"
    /\ IF disconnect
       THEN \* rx is dropped with the task, and the queued requests with it
            /\ uplink_pc' = "done"
            /\ uplink_q' = <<>>
            /\ rp' = IF rp = "upq" THEN "none" ELSE rp
       ELSE /\ uplink_pc' = "recv"
            /\ UNCHANGED <<uplink_q, rp>>
    /\ UNCHANGED <<disconnect, link, closeCalls, uplink_task, dispatch_task, task_lock,
                   joins, dispatch_pc, link_rx, dc_pc, dc_started, dc_done, cur>>
    /\ UNCHANGED <<chd, stage2, op, values_c, sup_cached, sup_fresh>>
    /\ UNCHANGED restVars

\* every Sender of the uplink queue is owned by the subsystems built in
\* connect_from_link: all are dropped when it returns an error
SendersDropped == cn \notin {"connecting", "ok"}

\* match timeout(100 ms, rx.recv_async()).await
UplinkRecv ==
    /\ uplink_pc = "recv"
    /\ IF uplink_q # <<>>
       THEN IF link = "open"
            THEN \* Ok(Ok(pk)) and link_uplink.send_packet(pk) succeeds
                 /\ rp' = "dev"
                 /\ uplink_q' = Tail(uplink_q)
                 /\ uplink_pc' = "loop"
            ELSE \* send_packet(pk).is_err(): return
                 /\ uplink_pc' = "done"
                 /\ uplink_q' = <<>>
                 /\ rp' = "none"
       ELSE IF SendersDropped
            THEN \* Ok(Err(Disconnected)) => return
                 /\ uplink_pc' = "done"
                 /\ UNCHANGED <<uplink_q, rp>>
            ELSE \* Err(_): the 100 ms timeout
                 /\ uplink_pc' = "loop"
                 /\ UNCHANGED <<uplink_q, rp>>
    /\ UNCHANGED <<disconnect, link, closeCalls, uplink_task, dispatch_task, task_lock,
                   joins, dispatch_pc, link_rx, dc_pc, dc_started, dc_done, cur>>
    /\ UNCHANGED <<chd, stage2, op, values_c, sup_cached, sup_fresh>>
    /\ UNCHANGED restVars

(***************************************************************************)
(* The downlink dispatcher task, CrtpDispatch::run.                        *)
(***************************************************************************)
\* while !self.disconnect.load(Relaxed) { ... }
DispatchLoop ==
    /\ dispatch_pc = "loop"
    /\ dispatch_pc' = IF disconnect THEN "done" ELSE "recv"
    /\ UNCHANGED <<disconnect, link, closeCalls, uplink_task, dispatch_task, task_lock,
                   joins, uplink_pc, uplink_q, link_rx, dc_pc, dc_started, dc_done, cur>>
    /\ UNCHANGED opVars
    /\ UNCHANGED restVars

\* match timeout(200 ms, link.recv_packet()).await
DispatchRecv ==
    /\ dispatch_pc = "recv"
    /\ IF link # "open"
       THEN \* Ok(Err(_)) => return
            /\ dispatch_pc' = "done"
            /\ UNCHANGED <<link_rx, rp>>
       ELSE IF link_rx # <<>>
            THEN \* Ok(Ok(packet)): channel.send_async(packet) on the port's sender
                 /\ rp' = "port"
                 /\ link_rx' = Tail(link_rx)
                 /\ dispatch_pc' = "loop"
            ELSE \* Err(_) => continue
                 /\ dispatch_pc' = "loop"
                 /\ UNCHANGED <<link_rx, rp>>
    /\ UNCHANGED <<disconnect, link, closeCalls, uplink_task, dispatch_task, task_lock,
                   joins, uplink_pc, uplink_q, dc_pc, dc_started, dc_done, cur>>
    /\ UNCHANGED <<chd, stage2, op, values_c, sup_cached, sup_fresh>>
    /\ UNCHANGED restVars

(***************************************************************************)
(* The device: answers a request the link has delivered, or never does.    *)
(***************************************************************************)
DeviceReply ==
    /\ rp = "dev"
    /\ link = "open"
    /\ rp' = "link"
    /\ link_rx' = Append(link_rx, cur)
    /\ UNCHANGED <<disconnect, link, closeCalls, uplink_task, dispatch_task, task_lock,
                   joins, uplink_pc, dispatch_pc, uplink_q, dc_pc, dc_started, dc_done, cur>>
    /\ UNCHANGED <<chd, stage2, op, values_c, sup_cached, sup_fresh>>
    /\ UNCHANGED restVars

\* A started log block emits a DATA packet on its own at every period.
DeviceLogData ==
    /\ cur = "log_next"
    /\ rp = "none"
    /\ link = "open"
    /\ rp' = "link"
    /\ link_rx' = Append(link_rx, cur)
    /\ UNCHANGED <<disconnect, link, closeCalls, uplink_task, dispatch_task, task_lock,
                   joins, uplink_pc, dispatch_pc, uplink_q, dc_pc, dc_started, dc_done, cur>>
    /\ UNCHANGED <<chd, stage2, op, values_c, sup_cached, sup_fresh>>
    /\ UNCHANGED restVars

(***************************************************************************)
(* Fan-out tasks behind the dispatcher.                                    *)
(***************************************************************************)
\* crtp_channel_dispatcher: while let Ok(pk) = downlink.recv_async().await
ChannelDispatch ==
    /\ chd = "run"
    /\ IF rp = "port"
       THEN /\ rp' = "chan"
            /\ UNCHANGED chd
       ELSE /\ PortClosed
            /\ chd' = "done"
            /\ UNCHANGED rp
    /\ UNCHANGED connVars
    /\ UNCHANGED <<stage2, op, values_c, sup_cached, sup_fresh>>
    /\ UNCHANGED restVars

\* MemoryDispatcher::new's task and Log::spawn_data_dispatcher's task:
\* while let Ok(pk) = downlink.recv_async().await { senders[id].send_async(pk) }
SecondStage ==
    /\ cur \in TwoStage
    /\ stage2 = "run"
    /\ IF rp = "chan"
       THEN /\ rp' = "back"
            /\ UNCHANGED stage2
       ELSE /\ ChanClosed
            /\ stage2' = "done"
            /\ UNCHANGED rp
    /\ UNCHANGED connVars
    /\ UNCHANGED <<chd, op, values_c, sup_cached, sup_fresh>>
    /\ UNCHANGED restVars

(***************************************************************************)
(* Subsystem operations.  op.after records whether the call was made after *)
(* a disconnect() had returned, op.sent whether its request was accepted   *)
(* by the uplink queue, op.src where an Ok result came from.               *)
(* The application of one run calls one of the operations (cur), any       *)
(* number of times; each operation uses a port and channels of its own.    *)
(* A new call is made once the packet of the previous exchange has left    *)
(* the pipeline (rp = "none"), which keeps the queues bounded.             *)
(***************************************************************************)
Waiting(sent) ==
    [pc |-> "wait", res |-> "none", after |-> DcReturned, sent |-> sent, src |-> "none"]

Returned(res, src) ==
    [pc |-> "idle", res |-> res, after |-> op.after, sent |-> op.sent, src |-> src]

ReturnedAtOnce(res, src) ==
    [pc |-> "idle", res |-> res, after |-> DcReturned, sent |-> FALSE, src |-> src]

\* Param::get: a populated cache entry is returned without I/O; otherwise
\* read_value enqueues a READ request and waits on read_downlink.
ParamGet ==
    /\ cur = "param_get"
    /\ op.pc = "idle"
    /\ rp = "none"
    /\ IF values_c = "Some"
       THEN /\ op' = ReturnedAtOnce("ok", "cache")
            /\ UNCHANGED <<uplink_q, rp>>
       ELSE IF UplinkRxAlive
            THEN /\ uplink_q' = Append(uplink_q, cur)
                 /\ rp' = "upq"
                 /\ op' = Waiting(TRUE)
            ELSE \* send_async fails: map_err(|_| Error::Disconnected)?
                 /\ op' = ReturnedAtOnce("disconnected", "none")
                 /\ UNCHANGED <<uplink_q, rp>>
    /\ UNCHANGED <<disconnect, link, closeCalls, uplink_task, dispatch_task, task_lock,
                   joins, uplink_pc, dispatch_pc, link_rx, dc_pc, dc_started, dc_done, cur>>
    /\ UNCHANGED <<chd, stage2, values_c, sup_cached, sup_fresh>>
    /\ UNCHANGED restVars

\* read_value: read_downlink.wait_packet(..).await?, then the cache is updated
ParamGetReply ==
    /\ cur = "param_get"
    /\ op.pc = "wait"
    /\ IF rp = "chan"
       THEN /\ rp' = "none"
            /\ values_c' = "Some"
            /\ op' = Returned("ok", "device")
       ELSE /\ ChanClosed
            /\ op' = Returned("disconnected", "none")
            /\ UNCHANGED <<rp, values_c>>
    /\ UNCHANGED connVars
    /\ UNCHANGED <<chd, stage2, sup_cached, sup_fresh>>
    /\ UNCHANGED restVars

\* Supervisor::read_bitfield: the cached bitfield is returned while it is
\* younger than cache_timeout_ms; otherwise a request is enqueued.
SupRead ==
    /\ cur = "sup_read"
    /\ op.pc = "idle"
    /\ rp = "none"
    /\ IF sup_cached /\ sup_fresh
       THEN /\ op' = ReturnedAtOnce("ok", "cache")
            /\ UNCHANGED <<uplink_q, rp>>
       ELSE IF UplinkRxAlive
            THEN /\ uplink_q' = Append(uplink_q, cur)
                 /\ rp' = "upq"
                 /\ op' = Waiting(TRUE)
            ELSE /\ op' = ReturnedAtOnce("disconnected", "none")
                 /\ UNCHANGED <<uplink_q, rp>>
    /\ UNCHANGED <<disconnect, link, closeCalls, uplink_task, dispatch_task, task_lock,
                   joins, uplink_pc, dispatch_pc, link_rx, dc_pc, dc_started, dc_done, cur>>
    /\ UNCHANGED <<chd, stage2, values_c, sup_cached, sup_fresh>>
    /\ UNCHANGED restVars

\* wait_for_bitfield: timeout(1000 ms, downlink.recv_async()); last_fetch_time
\* is set to the `now` read before the request, so the entry may already be old
SupReadReply ==
    /\ cur = "sup_read"
    /\ op.pc = "wait"
    /\ \/ /\ rp = "chan"
          /\ rp' = "none"
          /\ sup_cached' = TRUE
          /\ sup_fresh' \in BOOLEAN
          /\ op' = Returned("ok", "device")
       \/ /\ ChanClosed
          /\ op' = Returned("disconnected", "none")
          /\ UNCHANGED <<rp, sup_cached, sup_fresh>>
       \/ \* the 1000 ms deadline expires with nothing received
          /\ rp # "chan"
          /\ ~ChanClosed
          /\ op' = Returned("timeout", "none")
          /\ UNCHANGED <<rp, sup_cached, sup_fresh>>
    /\ UNCHANGED connVars
    /\ UNCHANGED <<chd, stage2, values_c>>
    /\ UNCHANGED restVars

\* time passes: now - last_fetch_time reaches cache_timeout_ms
TtlExpire ==
    /\ sup_fresh
    /\ sup_fresh' = FALSE
    /\ UNCHANGED connVars
    /\ UNCHANGED <<chd, stage2, rp, op, values_c, sup_cached>>
    /\ UNCHANGED restVars

\* MemoryBackend::read, one chunk: the result of send_async is discarded
\* (.ok()), then read_downlink.wait_packet(..).await
MemRead ==
    /\ cur = "mem_read"
    /\ op.pc = "idle"
    /\ rp = "none"
    /\ uplink_q' = IF UplinkRxAlive THEN Append(uplink_q, cur) ELSE uplink_q
    /\ rp' = IF UplinkRxAlive THEN "upq" ELSE rp
    /\ op' = Waiting(UplinkRxAlive)
    /\ UNCHANGED <<disconnect, link, closeCalls, uplink_task, dispatch_task, task_lock,
                   joins, uplink_pc, dispatch_pc, link_rx, dc_pc, dc_started, dc_done, cur>>
    /\ UNCHANGED <<chd, stage2, values_c, sup_cached, sup_fresh>>
    /\ UNCHANGED restVars

MemReadReply ==
    /\ cur = "mem_read"
    /\ op.pc = "wait"
    /\ IF rp = "back"
       THEN /\ rp' = "none"
            /\ op' = Returned("ok", "device")
       ELSE \* wait_packet returns Err: MemoryError("Failed to read memory")
            /\ BackClosed
            /\ op' = Returned("memory_error", "none")
            /\ UNCHANGED rp
    /\ UNCHANGED connVars
    /\ UNCHANGED <<chd, stage2, values_c, sup_cached, sup_fresh>>
    /\ UNCHANGED restVars

\* LogStream::next: self.log_block.data_channel.recv_async().await
LogNext ==
    /\ cur = "log_next"
    /\ op.pc = "idle"
    /\ op' = Waiting(FALSE)
    /\ UNCHANGED connVars
    /\ UNCHANGED <<chd, stage2, rp, values_c, sup_cached, sup_fresh>>
    /\ UNCHANGED restVars

LogNextReply ==
    /\ cur = "log_next"
    /\ op.pc = "wait"
    /\ IF rp = "back"
       THEN /\ rp' = "none"
            /\ op' = Returned("ok", "buffer")
       ELSE \* map_err(|_| Error::Disconnected)?
            /\ BackClosed
            /\ op' = Returned("disconnected", "none")
            /\ UNCHANGED rp
    /\ UNCHANGED connVars
    /\ UNCHANGED <<chd, stage2, values_c, sup_cached, sup_fresh>>
    /\ UNCHANGED restVars

(***************************************************************************)
(* The connection specification.                                           *)
(***************************************************************************)
InitConn ==
    /\ InitConnVars
    /\ cur \in Ops
    /\ InitOpVars
    /\ InitParamVars
    /\ InitReqVars
    /\ InitLogVars
    /\ InitMemVars
    /\ InitExtVars

NextConn ==
    \/ \E c \in Callers : CallDisconnect(c)
    \/ \E c \in Callers : CallWaitDisconnect(c)
    \/ \E c \in Callers : WaitCloseResolves(c)
    \/ \E c \in Callers : LockUplink(c)
    \/ \E c \in Callers : JoinUplink(c)
    \/ \E c \in Callers : LockDispatch(c)
    \/ \E c \in Callers : JoinDispatch(c)
    \/ \E c \in Callers : CloseLink(c)
    \/ LinkLost
    \/ UplinkLoop
    \/ UplinkRecv
    \/ DispatchLoop
    \/ DispatchRecv
    \/ DeviceReply
    \/ DeviceLogData
    \/ ChannelDispatch
    \/ SecondStage
    \/ ParamGet
    \/ ParamGetReply
    \/ SupRead
    \/ SupReadReply
    \/ TtlExpire
    \/ MemRead
    \/ MemReadReply
    \/ LogNext
    \/ LogNextReply

SpecConn == InitConn /\ [][NextConn]_vars

\* The scheduler runs every task and every pending await that can make
\* progress; the application, the device and the radio owe nothing.
FairSpecConn ==
    /\ SpecConn
    /\ \A c \in Callers : WF_vars(WaitCloseResolves(c))
    /\ \A c \in Callers : WF_vars(LockUplink(c))
    /\ \A c \in Callers : WF_vars(JoinUplink(c))
    /\ \A c \in Callers : WF_vars(LockDispatch(c))
    /\ \A c \in Callers : WF_vars(JoinDispatch(c))
    /\ \A c \in Callers : WF_vars(CloseLink(c))
    /\ WF_vars(UplinkLoop)
    /\ WF_vars(UplinkRecv)
    /\ WF_vars(DispatchLoop)
    /\ WF_vars(DispatchRecv)
    /\ WF_vars(ChannelDispatch)
    /\ WF_vars(SecondStage)
    /\ WF_vars(ParamGetReply)
    /\ WF_vars(SupReadReply)
    /\ WF_vars(MemReadReply)
    /\ WF_vars(LogNextReply)

C2_WaitingCallsComplete ==
    (DcReturned /\ op.pc = "wait") ~> (op.pc = "idle")

\* C3 (as stated): link.close() is invoked at most once over the connection,
\* however many times disconnect() / wait_disconnect() are called.
C3_CloseAtMostOnce ==
    closeCalls <= 1

\* C3 (amended): link.close() is invoked exactly once per call of disconnect()
\* that has returned (the one inside wait_disconnect() included), and each of
\* the two task handles is awaited at most once however many calls are made.
C3_CloseOncePerCall ==
    /\ closeCalls = dc_done
    /\ joins.uplink <= 1
    /\ joins.dispatch <= 1

\* two calls have returned and the link has been closed twice
C3_Witness ==
    /\ dc_done = 2
    /\ closeCalls = 2
    /\ joins.uplink = 1
    /\ joins.dispatch = 1

\* C4: link.close() is not invoked while the uplink pump or the dispatcher is
\* still running: a caller that is about to close, and any close already
\* made, finds both tasks ended.
C4_CloseAfterTasks ==
    /\ \A c \in Callers :
          dc_pc[c] = "close" => (uplink_pc = "done" /\ dispatch_pc = "done")
    /\ closeCalls > 0 => (uplink_pc = "done" /\ dispatch_pc = "done")

\* two concurrent callers of disconnect() are both about to close the link
C4_Witness ==
    /\ dc_pc[1] = "close"
    /\ dc_pc[2] = "close"
    /\ closeCalls = 0

(***************************************************************************)
(* The parameter subsystem.  One parameter of the TOC is followed.  The    *)
(* link is up during these runs.                                           *)
(***************************************************************************)
Pk(ch, cmd, val) == [ch |-> ch, cmd |-> cmd, val |-> val]

\* Mutex<HashMap<..>> Param.values: Param::get keeps the guard from its first
\* line to its return, across read_value's awaits
ValuesLocked == get_c.pc = "wait"

\* the watchers whose watch_change() has returned and whose stream is alive
Registered == (1..hist.reg) \ dropped

RemoveAt(s, i) ==
    IF i > Len(s) THEN s ELSE SubSeq(s, 1, i - 1) \o SubSeq(s, i + 1, Len(s))

RECURSIVE RemoveAll(_, _)
RemoveAll(s, idxs) ==
    IF idxs = <<>> THEN s ELSE RemoveAll(RemoveAt(s, Head(idxs)), Tail(idxs))

\* (variant: the indices are removed in ascending order)
Ascending(s) == s

\* to_remove.into_iter().rev()
Rev(s) == [i \in 1..Len(s) |-> s[Len(s) + 1 - i]]

\* (variant: the test of unbounded_send is inverted)
SendSucceeded(ws) ==
    SelectSeq([i \in 1..Len(ws) |-> i], LAMBDA i : ws[i] \notin dropped)

\* notify_watchers: the indices whose unbounded_send failed
ToRemove(ws) ==
    SelectSeq([i \in 1..Len(ws) |-> i], LAMBDA i : ws[i] \in dropped)

\* notify_watchers: the Vec after the dropped watchers have been removed
WatchersAfterNotify(ws) == RemoveAll(ws, Rev(ToRemove(ws)))

\* notify_watchers: each watcher of the Vec is sent (name, value); tag is the
\* number of the set that notifies, 0 for a device update
InboxAfterNotify(ws, v, tag) ==
    [w \in 1..MaxWatchers |->
        IF w \notin dropped /\ \E i \in 1..Len(ws) : ws[i] = w
        THEN Append(inbox[w], <<v, tag>>)
        ELSE inbox[w]]

\* Param::watch_change: a new sender is pushed, the stream is returned
WatchChange ==
    /\ cur = "watch_change"
    /\ hist.reg < MaxWatchers
    /\ watchers' = Append(watchers, hist.reg + 1)
    /\ hist' = [hist EXCEPT !.reg = @ + 1]
    /\ UNCHANGED <<values, dropped, inbox, p_uplink, p_downlink, read_downlink,
                   write_downlink, misc_downlink, misc_cmd, dev, set_c, get_c, misc_l,
                   cmd_c>>
    /\ UNCHANGED <<connVars, opVars, reqVars, logVars, memVars, extVars>>

\* the application drops a stream returned by watch_change
DropWatcher(w) ==
    /\ w \in Registered
    /\ dropped' = dropped \cup {w}
    /\ inbox' = [inbox EXCEPT ![w] = <<>>]
    /\ UNCHANGED <<values, watchers, p_uplink, p_downlink, read_downlink,
                   write_downlink, misc_downlink, misc_cmd, dev, set_c, get_c, misc_l,
                   cmd_c, hist>>
    /\ UNCHANGED <<connVars, opVars, reqVars, logVars, memVars, extVars>>

(***************************************************************************)
(* The device and the downlink fan-out of the param port.                  *)
(***************************************************************************)
\* The firmware handles the next request.  A write is applied and echoed, or
\* refused with an error code in place of the value.
DeviceHandle ==
    /\ p_uplink # <<>>
    /\ p_uplink' = Tail(p_uplink)
    /\ LET req == Head(p_uplink) IN
       \/ /\ req.ch = READ_CHANNEL
          /\ p_downlink' = Append(p_downlink, Pk(READ_CHANNEL, 0, dev.val))
          /\ UNCHANGED dev
       \/ /\ req.ch = WRITE_CHANNEL
          /\ p_downlink' = Append(p_downlink, Pk(WRITE_CHANNEL, 0, req.val))
          /\ dev' = [dev EXCEPT !.val = req.val, !.last = Some(req.val), !.upd = FALSE]
       \/ /\ req.ch = WRITE_CHANNEL
          /\ p_downlink' = Append(p_downlink, Pk(WRITE_CHANNEL, 0, 2))
          /\ UNCHANGED dev
       \/ /\ req.ch = MISC_CHANNEL
          /\ p_downlink' = Append(p_downlink, Pk(MISC_CHANNEL, req.cmd, 0))
          /\ UNCHANGED dev
    /\ UNCHANGED <<values, watchers, dropped, inbox, read_downlink, write_downlink,
                   misc_downlink, misc_cmd, set_c, get_c, misc_l, cmd_c, hist>>
    /\ UNCHANGED <<connVars, opVars, reqVars, logVars, memVars, extVars>>

\* The firmware changes the parameter itself and announces it on the MISC
\* channel (command byte 1).
DeviceUpdate(u) ==
    /\ dev.n < MaxUpdates
    /\ dev' = [dev EXCEPT !.val = u, !.last = Some(u), !.upd = TRUE, !.n = @ + 1]
    /\ p_downlink' = Append(p_downlink, Pk(MISC_CHANNEL, MISC_VALUE_UPDATED, u))
    /\ hist' = [hist EXCEPT !.fresh = None]
    /\ UNCHANGED <<values, watchers, dropped, inbox, p_uplink, read_downlink,
                   write_downlink, misc_downlink, misc_cmd, set_c, get_c, misc_l, cmd_c>>
    /\ UNCHANGED <<connVars, opVars, reqVars, logVars, memVars, extVars>>

\* crtp_channel_dispatcher of the param port: the frame goes to the receiver
\* of its channel
ParamChannelDispatch ==
    /\ p_downlink # <<>>
    /\ p_downlink' = Tail(p_downlink)
    /\ LET pk == Head(p_downlink) IN
       /\ read_downlink' = IF pk.ch = READ_CHANNEL
                           THEN Append(read_downlink, pk) ELSE read_downlink
       /\ write_downlink' = IF pk.ch = WRITE_CHANNEL
                            THEN Append(write_downlink, pk) ELSE write_downlink
       /\ misc_downlink' = IF pk.ch = MISC_CHANNEL
                           THEN Append(misc_downlink, pk) ELSE misc_downlink
    /\ UNCHANGED <<values, watchers, dropped, inbox, p_uplink, misc_cmd, dev, set_c,
                   get_c, misc_l, cmd_c, hist>>
    /\ UNCHANGED <<connVars, opVars, reqVars, logVars, memVars, extVars>>

(***************************************************************************)
(* Param::set.                                                             *)
(***************************************************************************)
\* the type check passes, write_downlink is locked, the request is sent
SetStart(v) ==
    /\ set_c.pc = "idle"
    /\ set_c.n < MaxSets
    /\ p_uplink' = Append(p_uplink, Pk(WRITE_CHANNEL, 0, v))
    /\ set_c' = [pc |-> "wait", val |-> v, n |-> set_c.n + 1, res |-> "none"]
    /\ hist' = [hist EXCEPT !.fresh = None]
    /\ UNCHANGED <<values, watchers, dropped, inbox, p_downlink, read_downlink,
                   write_downlink, misc_downlink, misc_cmd, dev, get_c, misc_l, cmd_c>>
    /\ UNCHANGED <<connVars, opVars, reqVars, logVars, memVars, extVars>>

\* downlink.wait_packet(PARAM_PORT, _WRITE_CHANNEL, id) returns; the echoed
\* bytes are compared with the value sent
SetAnswer ==
    /\ set_c.pc = "wait"
    /\ write_downlink # <<>>
    /\ write_downlink' = Tail(write_downlink)
    /\ set_c' = IF Head(write_downlink).val = set_c.val
                THEN [set_c EXCEPT !.pc = "apply"]
                ELSE [set_c EXCEPT !.pc = "idle", !.res = "param_error"]
    /\ UNCHANGED <<values, watchers, dropped, inbox, p_uplink, p_downlink,
                   read_downlink, misc_downlink, misc_cmd, dev, get_c, misc_l, cmd_c,
                   hist>>
    /\ UNCHANGED <<connVars, opVars, reqVars, logVars, memVars, extVars>>

\* *self.values.lock().await.get_mut(param).unwrap() = Some(value)
SetApply ==
    /\ set_c.pc = "apply"
    /\ ~ValuesLocked
    /\ values' = Some(set_c.val)
    /\ set_c' = [set_c EXCEPT !.pc = "notify"]
    /\ UNCHANGED <<watchers, dropped, inbox, p_uplink, p_downlink, read_downlink,
                   write_downlink, misc_downlink, misc_cmd, dev, get_c, misc_l, cmd_c,
                   hist>>
    /\ UNCHANGED <<connVars, opVars, reqVars, logVars, memVars, extVars>>

\* notify_watchers(&self.watchers, param, value).await; Ok(())
SetNotify ==
    /\ set_c.pc = "notify"
    /\ inbox' = InboxAfterNotify(watchers, set_c.val, set_c.n)
    /\ watchers' = WatchersAfterNotify(watchers)
    /\ set_c' = [set_c EXCEPT !.pc = "idle", !.res = "ok"]
    /\ hist' = [hist EXCEPT
                  !.fresh = IF dev.upd THEN None ELSE Some(set_c.val),
                  !.sets = @ \cup {[n |-> set_c.n, v |-> set_c.val, live |-> Registered]}]
    /\ UNCHANGED <<values, dropped, p_uplink, p_downlink, read_downlink,
                   write_downlink, misc_downlink, misc_cmd, dev, get_c, misc_l, cmd_c>>
    /\ UNCHANGED <<connVars, opVars, reqVars, logVars, memVars, extVars>>

(***************************************************************************)
(* Param::get.                                                             *)
(***************************************************************************)
\* values is locked; a cached value is returned, otherwise read_value sends
\* a READ request with the guard still held
GetStart ==
    /\ cur = "param_get"
    /\ get_c.pc = "idle"
    /\ IF values # None
       THEN /\ get_c' = [pc |-> "idle", res |-> values, read |-> FALSE,
                         ctx |-> hist.fresh]
            /\ UNCHANGED p_uplink
       ELSE /\ get_c' = [pc |-> "wait", res |-> None, read |-> TRUE,
                         ctx |-> hist.fresh]
            /\ p_uplink' = Append(p_uplink, Pk(READ_CHANNEL, 0, 0))
    /\ UNCHANGED <<values, watchers, dropped, inbox, p_downlink, read_downlink,
                   write_downlink, misc_downlink, misc_cmd, dev, set_c, misc_l, cmd_c,
                   hist>>
    /\ UNCHANGED <<connVars, opVars, reqVars, logVars, memVars, extVars>>

\* read_downlink.wait_packet(..) returns; the cache is updated, the guard dropped
GetAnswer ==
    /\ get_c.pc = "wait"
    /\ read_downlink # <<>>
    /\ read_downlink' = Tail(read_downlink)
    /\ values' = Some(Head(read_downlink).val)
    /\ get_c' = [get_c EXCEPT !.pc = "idle", !.res = Some(Head(read_downlink).val)]
    /\ UNCHANGED <<watchers, dropped, inbox, p_uplink, p_downlink, write_downlink,
                   misc_downlink, misc_cmd, dev, set_c, misc_l, cmd_c, hist>>
    /\ UNCHANGED <<connVars, opVars, reqVars, logVars, memVars, extVars>>

(***************************************************************************)
(* The MISC listener task of Param::spawn_misc_loop.                       *)
(***************************************************************************)
\* (variant: every MISC frame is taken for an update)
AnyFrame(pk) == TRUE

\* if pk.get_data().first() == Some(&1)
IsUpdate(pk) == pk.cmd = MISC_VALUE_UPDATED

\* while let Ok(pk) = misc_downlink.recv_async().await: an update goes on to
\* the cache, any other frame is forwarded to misc_cmd_tx
MiscRecv ==
    /\ misc_l.pc = "recv"
    /\ misc_downlink # <<>>
    /\ misc_downlink' = Tail(misc_downlink)
    /\ IF IsUpdate(Head(misc_downlink))
       THEN /\ misc_l' = [pc |-> "apply", pk |-> Head(misc_downlink)]
            /\ UNCHANGED misc_cmd
       ELSE /\ misc_cmd' = Append(misc_cmd, Head(misc_downlink))
            /\ UNCHANGED misc_l
    /\ UNCHANGED <<values, watchers, dropped, inbox, p_uplink, p_downlink,
                   read_downlink, write_downlink, dev, set_c, get_c, cmd_c, hist>>
    /\ UNCHANGED <<connVars, opVars, reqVars, logVars, memVars, extVars>>

\* *values.lock().await.get_mut(param).unwrap() = Some(value)
MiscApply ==
    /\ misc_l.pc = "apply"
    /\ ~ValuesLocked
    /\ values' = Some(misc_l.pk.val)
    /\ misc_l' = [misc_l EXCEPT !.pc = "notify"]
    /\ hist' = [hist EXCEPT !.applied = @ \cup {misc_l.pk.cmd}]
    /\ UNCHANGED <<watchers, dropped, inbox, p_uplink, p_downlink, read_downlink,
                   write_downlink, misc_downlink, misc_cmd, dev, set_c, get_c, cmd_c>>
    /\ UNCHANGED <<connVars, opVars, reqVars, logVars, memVars, extVars>>

\* notify_watchers(&watchers, param.clone(), value).await
MiscNotify ==
    /\ misc_l.pc = "notify"
    /\ inbox' = InboxAfterNotify(watchers, misc_l.pk.val, 0)
    /\ watchers' = WatchersAfterNotify(watchers)
    /\ misc_l' = [pc |-> "recv", pk |-> NoPk]
    /\ UNCHANGED <<values, dropped, p_uplink, p_downlink, read_downlink,
                   write_downlink, misc_downlink, misc_cmd, dev, set_c, get_c, cmd_c,
                   hist>>
    /\ UNCHANGED <<connVars, opVars, reqVars, logVars, memVars, extVars>>

(***************************************************************************)
(* Param::persistent_get_state, for the commands of the MISC channel.      *)
(***************************************************************************)
\* misc_downlink is locked and the request [MISC_PERSISTENT_GET_STATE, id] sent
CmdStart ==
    /\ cur = "persistent_get_state"
    /\ cmd_c.pc = "idle"
    /\ p_uplink' = Append(p_uplink, Pk(MISC_CHANNEL, MISC_PERSISTENT_GET_STATE, 0))
    /\ cmd_c' = [pc |-> "wait", ret |-> 0]
    /\ UNCHANGED <<values, watchers, dropped, inbox, p_downlink, read_downlink,
                   write_downlink, misc_downlink, misc_cmd, dev, set_c, get_c, misc_l,
                   hist>>
    /\ UNCHANGED <<connVars, opVars, reqVars, logVars, memVars, extVars>>

\* wait_packet(PARAM_PORT, MISC_CHANNEL, [cmd, id]): a frame of another prefix
\* is dropped and the wait goes on
CmdAnswer ==
    /\ cmd_c.pc = "wait"
    /\ misc_cmd # <<>>
    /\ misc_cmd' = Tail(misc_cmd)
    /\ cmd_c' = IF Head(misc_cmd).cmd = MISC_PERSISTENT_GET_STATE
                THEN [pc |-> "idle", ret |-> Head(misc_cmd).cmd]
                ELSE cmd_c
    /\ UNCHANGED <<values, watchers, dropped, inbox, p_uplink, p_downlink,
                   read_downlink, write_downlink, misc_downlink, dev, set_c, get_c,
                   misc_l, hist>>
    /\ UNCHANGED <<connVars, opVars, reqVars, logVars, memVars, extVars>>

(***************************************************************************)
(* The parameter specification.                                            *)
(***************************************************************************)
\* The application of one run sets the parameter and, besides, uses one of
\* these operations (cur).
ParamOps == {"param_get", "watch_change", "persistent_get_state"}

InitParam ==
    /\ InitConnVars
    /\ cur \in ParamOps
    /\ InitOpVars
    /\ InitParamVars
    /\ InitReqVars
    /\ InitLogVars
    /\ InitMemVars
    /\ InitExtVars

NextParam ==
    \/ WatchChange
    \/ \E w \in 1..MaxWatchers : DropWatcher(w)
    \/ DeviceHandle
    \/ \E u \in Vals : DeviceUpdate(u)
    \/ ParamChannelDispatch
    \/ \E v \in Vals : SetStart(v)
    \/ SetAnswer
    \/ SetApply
    \/ SetNotify
    \/ GetStart
    \/ GetAnswer
    \/ MiscRecv
    \/ MiscApply
    \/ MiscNotify
    \/ CmdStart
    \/ CmdAnswer

SpecParam == InitParam /\ [][NextParam]_vars

(***************************************************************************)
(* Properties of the parameter subsystem.                                  *)
(***************************************************************************)
\* C5 (as stated): when param.set(name, v) has returned success and since
\* then no set was started and the device announced no change made after that
\* write (get_c.ctx = Some(v) at the call), the next param.get(name) returns v
\* and sends no READ request.
C5_GetAfterSet ==
    (get_c.pc = "idle" /\ get_c.ctx # None) =>
        (get_c.res = get_c.ctx /\ ~get_c.read)

\* the number of items watcher w was sent on account of set number n
Deliveries(w, n) ==
    Cardinality({i \in 1..Len(inbox[w]) : inbox[w][i][2] = n})

\* C6: for each successful param.set(name, v), every watcher registered and
\* not dropped at the moment of the notification has been sent (name, v)
\* exactly once on account of that set; and no watcher is sent it twice.
C6_WatchersNotifiedOnce ==
    /\ \A r \in hist.sets : \A w \in r.live \ dropped :
          /\ Deliveries(w, r.n) = 1
          /\ \E i \in 1..Len(inbox[w]) : inbox[w][i] = <<r.v, r.n>>
    /\ \A w \in 1..MaxWatchers : \A n \in 1..MaxSets : Deliveries(w, n) <= 1

\* a set has notified a live watcher while a dropped one was taken off the Vec
C6_Witness ==
    /\ dropped # {}
    /\ Len(watchers) < hist.reg
    /\ \E r \in hist.sets : \E w \in r.live \ dropped : Deliveries(w, r.n) = 1

\* a step in which notify_watchers runs, for a set or for a device update
NotifyStep ==
    \/ set_c.pc = "notify" /\ set_c'.pc = "idle"
    \/ misc_l.pc = "notify" /\ misc_l'.pc = "recv"

\* C40: a notification leaves in the watcher list exactly the watchers whose
\* receiver is alive, in their order, each of them is sent that
\* notification, and a watcher whose receiver is alive is never off the
\* list, so that it is sent every later notification too.
C40_ExactlyDroppedRemoved ==
    [][/\ NotifyStep =>
            /\ watchers' = SelectSeq(watchers, LAMBDA w : w \notin dropped)
            /\ \A i \in 1..Len(watchers') :
                  Len(inbox'[watchers'[i]]) = Len(inbox[watchers'[i]]) + 1
       /\ \A w \in Registered' : \E i \in 1..Len(watchers') : watchers'[i] = w]_vars

\* a notification has taken a dropped watcher off the list, and the watcher
\* that stayed has been sent that notification and a later one
C40_Witness ==
    /\ hist.reg = MaxWatchers
    /\ dropped # {}
    /\ Len(watchers) = hist.reg - Cardinality(dropped)
    /\ \E w \in Registered : Len(inbox[w]) >= 2

\* every frame the device sent has been processed and no call is in progress
Quiescent ==
    /\ p_uplink = <<>>
    /\ p_downlink = <<>>
    /\ read_downlink = <<>>
    /\ write_downlink = <<>>
    /\ misc_downlink = <<>>
    /\ set_c.pc = "idle"
    /\ get_c.pc = "idle"
    /\ misc_l.pc = "recv"

\* C7 (as stated): once every received frame has been processed, a populated
\* cache entry equals the value of the last write echo or update frame the
\* device sent for the parameter.
C7_CacheIsLastFrame ==
    (Quiescent /\ values # None /\ dev.last # None) => values = dev.last

\* C8: a MISC frame whose first byte is 1 is never returned as the response of
\* a persistence command, and a frame with another first byte is never applied
\* to the value cache.
C8_MiscDemux ==
    /\ hist.applied \subseteq {MISC_VALUE_UPDATED}
    /\ cmd_c.ret # MISC_VALUE_UPDATED

\* an update has been applied to the cache and a command has got its response
\* while an update was queued behind it for the listener
C8_Witness ==
    /\ hist.applied = {MISC_VALUE_UPDATED}
    /\ cmd_c.pc = "idle"
    /\ cmd_c.ret = MISC_PERSISTENT_GET_STATE

(***************************************************************************)
(* Request / response calls of the link service and of the platform.  One  *)
(* application task makes the calls one after the other, so the mutex each *)
(* call takes is free when it is called; the mutex is released when the    *)
(* call returns or its future is dropped.  The link is up during these     *)
(* runs; the device answers a request, late, or never.                     *)
(***************************************************************************)
\* the calls of Platform that share version_comm
VersionKinds == {"protocol_version", "firmware_version"}

\* (variant: the wait for the echo has no deadline)
NoDeadline(kind) == FALSE

\* tokio::time::timeout(Duration::from_secs(1), echo_downlink.recv_async()) in
\* LinkService::ping; the Platform calls await recv_async() without one
HasDeadline(kind) == kind = "ping"

\* the call is made: the request is sent and the reply awaited
StartCall(kind) ==
    /\ rq.pc = "idle"
    /\ rq.id < MaxReqs
    /\ rq' = [pc |-> "wait", kind |-> kind, id |-> rq.id + 1, res |-> "none", from |-> 0]
    /\ rq_up' = Append(rq_up, [kind |-> kind, id |-> rq.id + 1])
    /\ UNCHANGED <<echo_downlink, version_downlink>>
    /\ UNCHANGED <<connVars, opVars, paramVars, logVars, memVars, extVars>>

\* LinkService::ping
Ping == StartCall("ping")

\* Platform::protocol_version
ProtocolVersion == StartCall("protocol_version")

\* Platform::firmware_version
FirmwareVersion == StartCall("firmware_version")

\* ping: the next packet of echo_downlink is the answer; it must carry
\* PING_PAYLOAD, as every echo of a ping does
PingAnswer ==
    /\ rq.pc = "wait"
    /\ rq.kind = "ping"
    /\ echo_downlink # <<>>
    /\ echo_downlink' = Tail(echo_downlink)
    /\ rq' = [rq EXCEPT !.pc = "idle",
                        !.res = IF Head(echo_downlink).kind = "ping"
                                THEN "ok" ELSE "protocol_error",
                        !.from = Head(echo_downlink).id]
    /\ UNCHANGED <<rq_up, version_downlink>>
    /\ UNCHANGED <<connVars, opVars, paramVars, logVars, memVars, extVars>>

\* the deadline of the call expires with nothing received: Error::Timeout
CallTimeout ==
    /\ rq.pc = "wait"
    /\ HasDeadline(rq.kind)
    /\ echo_downlink = <<>>
    /\ rq' = [rq EXCEPT !.pc = "idle", !.res = "timeout"]
    /\ UNCHANGED <<rq_up, echo_downlink, version_downlink>>
    /\ UNCHANGED <<connVars, opVars, paramVars, logVars, memVars, extVars>>

\* protocol_version / firmware_version: the next packet of the version channel
\* is the answer; pk.get_data()[0] must be the command that was sent
VersionAnswer ==
    /\ rq.pc = "wait"
    /\ rq.kind \in VersionKinds
    /\ version_downlink # <<>>
    /\ version_downlink' = Tail(version_downlink)
    /\ rq' = [rq EXCEPT !.pc = "idle",
                        !.res = IF Head(version_downlink).kind = rq.kind
                                THEN "ok" ELSE "protocol_error",
                        !.from = Head(version_downlink).id]
    /\ UNCHANGED <<rq_up, echo_downlink>>
    /\ UNCHANGED <<connVars, opVars, paramVars, logVars, memVars, extVars>>

\* the application drops the future of the call it is waiting in (select!,
\* an outer timeout, an aborted task)
CancelCall ==
    /\ rq.pc = "wait"
    /\ rq' = [rq EXCEPT !.pc = "idle", !.res = "cancelled"]
    /\ UNCHANGED <<rq_up, echo_downlink, version_downlink>>
    /\ UNCHANGED <<connVars, opVars, paramVars, logVars, memVars, extVars>>

\* the device answers its oldest request; the answer reaches the receiver of
\* its channel
DeviceAnswers ==
    /\ rq_up # <<>>
    /\ rq_up' = Tail(rq_up)
    /\ IF Head(rq_up).kind = "ping"
       THEN /\ echo_downlink' = Append(echo_downlink, Head(rq_up))
            /\ UNCHANGED version_downlink
       ELSE /\ version_downlink' = Append(version_downlink, Head(rq_up))
            /\ UNCHANGED echo_downlink
    /\ UNCHANGED rq
    /\ UNCHANGED <<connVars, opVars, paramVars, logVars, memVars, extVars>>

InitReq ==
    /\ InitConnVars
    /\ cur = "request"
    /\ InitOpVars
    /\ InitParamVars
    /\ InitReqVars
    /\ InitLogVars
    /\ InitMemVars
    /\ InitExtVars

NextReq ==
    \/ Ping
    \/ ProtocolVersion
    \/ FirmwareVersion
    \/ PingAnswer
    \/ CallTimeout
    \/ VersionAnswer
    \/ CancelCall
    \/ DeviceAnswers

SpecReq == InitReq /\ [][NextReq]_vars

\* the executor runs a call whose answer is there or whose deadline is due
FairSpecReq ==
    /\ SpecReq
    /\ WF_vars(PingAnswer)
    /\ WF_vars(CallTimeout)
    /\ WF_vars(VersionAnswer)

(***************************************************************************)
(* Properties of the request / response calls.                             *)
(***************************************************************************)
\* C9 (as stated): a reply that arrives after its caller was cancelled or
\* timed out is discarded: the answer a call returns with, or fails on, is
\* the reply to its own request.
C9_OwnReplyOnly ==
    (rq.pc = "idle" /\ rq.res \in {"ok", "protocol_error"}) => rq.from = rq.id

\* C10 (as stated): every request / response call completes, with Timeout
\* when the device never replies.
C10_EveryCallCompletes ==
    (rq.pc = "wait") ~> (rq.pc = "idle")

\* C10 (amended): a call of the link service (ping), which waits under a
\* deadline, completes even when the device never replies, and Timeout is
\* returned by such a call only; the calls that await their reply without a
\* deadline are not covered.
C10_DeadlineCallsComplete ==
    /\ (rq.pc = "wait" /\ rq.kind = "ping") ~> (rq.pc = "idle")
    /\ [](rq.res = "timeout" => rq.kind = "ping")

\* a ping has returned Timeout while its request was still unanswered
C10_Witness ==
    /\ rq.pc = "idle"
    /\ rq.kind = "ping"
    /\ rq.res = "timeout"
    /\ \E i \in 1..Len(rq_up) : rq_up[i].id = rq.id

(***************************************************************************)
(* Log subsystem (crazyflie-lib/src/log.rs): create_block() with its       *)
(* cleanup of dropped blocks, the operations of a LogBlock, the device's   *)
(* block table and the data dispatcher task.                               *)
(***************************************************************************)
notLog == <<connVars, opVars, paramVars, reqVars, memVars, extVars>>

CanaryNeverDead(b) == FALSE

\* canary.upgrade() == None: the LogBlock / LogStream of the entry is gone
CanaryDead(b) == b \notin DOMAIN log_blocks

SameId(n) == n

\* *next_block_id += 1
NextId(n) == n + 1

Min(S) == CHOOSE x \in S : \A y \in S : x <= y

\* the entries of the cloned map that the loop will delete, in key order
DeadIn(todo) == {b \in todo : CanaryDead(b)}

\* the receiver of the block's data channel still exists: it lives in the
\* LogBlock, and before that in the create_block() call that made it
RxAlive(b) ==
    \/ b \in DOMAIN log_blocks
    \/ \E c \in Callers : cb[c].pc = "cr_ab" /\ cb[c].id = b

\* send_async(packet).await.is_err(): the receiver has been dropped
SendFails(b) == ~RxAlive(b)

Without(f, b) == [x \in DOMAIN f \ {b} |-> f[x]]

LogHistory(field, v) == [lhist EXCEPT ![field] = v]

\* create_block() is called: it enters cleanup_blocks() and asks for the
\* active_blocks mutex
CreateBlock(c) ==
    /\ cur = "log_data" => c = 1
    /\ cb[c].pc = "idle"
    /\ cb_calls < MaxBlocks
    /\ cb_calls' = cb_calls + 1
    /\ cb' = [cb EXCEPT ![c] = [IdleCall EXCEPT !.pc = "cl_lock",
                                               !.dead0 = lhist.dropped \ lhist.acked]]
    /\ UNCHANGED <<next_block_id, active_blocks, data_channels, log_blocks, ctl_lock,
                   ab_lock, l_uplink, control_downlink, data_downlink, samples,
                   dev_blocks, dev_run, router, lhist>>
    /\ UNCHANGED notLog

\* cleanup_blocks: the mutex is taken and the map cloned for the loop
CleanupLock(c) ==
    /\ cb[c].pc = "cl_lock"
    /\ ab_lock = 0
    /\ ab_lock' = c
    /\ cb' = [cb EXCEPT ![c].pc = "cl_scan", ![c].todo = active_blocks]
    /\ UNCHANGED <<next_block_id, active_blocks, data_channels, log_blocks, ctl_lock,
                   cb_calls, l_uplink, control_downlink, data_downlink, samples,
                   dev_blocks, dev_run, router, lhist>>
    /\ UNCHANGED notLog

\* cleanup_blocks: the loop runs to the next entry whose canary is dead and
\* asks for the control mutex, or it ends and the active_blocks guard drops
CleanupScan(c) ==
    /\ cb[c].pc = "cl_scan"
    /\ IF DeadIn(cb[c].todo) # {}
       THEN LET d == Min(DeadIn(cb[c].todo)) IN
            /\ cb' = [cb EXCEPT ![c].pc = "cl_ctl", ![c].del = d,
                                ![c].todo = {x \in cb[c].todo : x > d}]
            /\ UNCHANGED ab_lock
       ELSE /\ cb' = [cb EXCEPT ![c].pc = "gen", ![c].todo = {}]
            /\ ab_lock' = 0
    /\ UNCHANGED <<next_block_id, active_blocks, data_channels, log_blocks, ctl_lock,
                   cb_calls, l_uplink, control_downlink, data_downlink, samples,
                   dev_blocks, dev_run, router, lhist>>
    /\ UNCHANGED notLog

\* cleanup_blocks: the control mutex is taken and DELETE_BLOCK enqueued
CleanupCtl(c) ==
    /\ cb[c].pc = "cl_ctl"
    /\ ctl_lock = <<>>
    /\ ctl_lock' = <<"create", c>>
    /\ l_uplink' = Append(l_uplink, <<DELETE_BLOCK, cb[c].del>>)
    /\ cb' = [cb EXCEPT ![c].pc = "cl_wait"]
    /\ UNCHANGED <<next_block_id, active_blocks, data_channels, log_blocks, ab_lock,
                   cb_calls, control_downlink, data_downlink, samples,
                   dev_blocks, dev_run, router, lhist>>
    /\ UNCHANGED notLog

\* cleanup_blocks: wait_packet takes the next control packet; the matching
\* one ends the wait, with an error (the call fails, both guards drop) or with
\* the removal of the entry; any other packet is discarded
CleanupRecv(c) ==
    /\ cb[c].pc = "cl_wait"
    /\ control_downlink # <<>>
    /\ control_downlink' = Tail(control_downlink)
    /\ LET pk == Head(control_downlink) IN
       IF pk[1] = DELETE_BLOCK /\ pk[2] = cb[c].del
       THEN IF pk[3] # 0
            THEN /\ cb' = [cb EXCEPT ![c] = IdleCall]
                 /\ ctl_lock' = <<>>
                 /\ ab_lock' = 0
                 /\ UNCHANGED <<active_blocks, lhist>>
            ELSE /\ cb' = [cb EXCEPT ![c].pc = "cl_scan"]
                 /\ active_blocks' = active_blocks \ {cb[c].del}
                 /\ ctl_lock' = <<>>
                 /\ lhist' = LogHistory("acked", lhist.acked \cup {cb[c].del})
                 /\ UNCHANGED ab_lock
       ELSE UNCHANGED <<cb, ctl_lock, ab_lock, active_blocks, lhist>>
    /\ UNCHANGED <<next_block_id, data_channels, log_blocks, cb_calls, l_uplink,
                   data_downlink, samples, dev_blocks, dev_run, router>>
    /\ UNCHANGED notLog

\* generate_next_block_id: an error at u8::MAX, else the counter's value is
\* the id and the counter advances
GenerateNextBlockId(c) ==
    /\ cb[c].pc = "gen"
    /\ IF next_block_id = U8_MAX
       THEN /\ cb' = [cb EXCEPT ![c] = IdleCall]
            /\ UNCHANGED <<next_block_id, lhist>>
       ELSE /\ cb' = [cb EXCEPT ![c].pc = "cr_ctl", ![c].id = next_block_id]
            /\ next_block_id' = NextId(next_block_id)
            /\ lhist' = LogHistory("alloc", Append(lhist.alloc, next_block_id))
    /\ UNCHANGED <<active_blocks, data_channels, log_blocks, ctl_lock, ab_lock,
                   cb_calls, l_uplink, control_downlink, data_downlink, samples,
                   dev_blocks, dev_run, router>>
    /\ UNCHANGED notLog

\* create_block: the control mutex is taken and CREATE_BLOCK_V2 enqueued
CreateCtl(c) ==
    /\ cb[c].pc = "cr_ctl"
    /\ ctl_lock = <<>>
    /\ ctl_lock' = <<"create", c>>
    /\ l_uplink' = Append(l_uplink, <<CREATE_BLOCK_V2, cb[c].id>>)
    /\ cb' = [cb EXCEPT ![c].pc = "cr_wait"]
    /\ UNCHANGED <<next_block_id, active_blocks, data_channels, log_blocks, ab_lock,
                   cb_calls, control_downlink, data_downlink, samples,
                   dev_blocks, dev_run, router, lhist>>
    /\ UNCHANGED notLog

\* create_block: wait_packet; on the matching reply an error ends the call,
\* status 0 registers the data sender and asks for the active_blocks mutex
CreateRecv(c) ==
    /\ cb[c].pc = "cr_wait"
    /\ control_downlink # <<>>
    /\ control_downlink' = Tail(control_downlink)
    /\ LET pk == Head(control_downlink) IN
       IF pk[1] = CREATE_BLOCK_V2 /\ pk[2] = cb[c].id
       THEN IF pk[3] # 0
            THEN /\ cb' = [cb EXCEPT ![c] = IdleCall]
                 /\ ctl_lock' = <<>>
                 /\ UNCHANGED data_channels
            ELSE /\ cb' = [cb EXCEPT ![c].pc = "cr_ab"]
                 /\ data_channels' = data_channels \cup {cb[c].id}
                 /\ UNCHANGED ctl_lock
       ELSE UNCHANGED <<cb, ctl_lock, data_channels>>
    /\ UNCHANGED <<next_block_id, active_blocks, log_blocks, ab_lock, cb_calls,
                   l_uplink, data_downlink, samples, dev_blocks, dev_run, router,
                   lhist>>
    /\ UNCHANGED notLog

\* create_block: the canary is inserted under the active_blocks mutex and
\* the LogBlock returned; the control guard drops with the call
CreateRegister(c) ==
    /\ cb[c].pc = "cr_ab"
    /\ ab_lock = 0
    /\ active_blocks' = active_blocks \cup {cb[c].id}
    /\ log_blocks' = (cb[c].id :> [pc |-> "idle", kind |-> 0, ops |-> 0]) @@ log_blocks
    /\ ctl_lock' = <<>>
    /\ lhist' = LogHistory("ret", Append(lhist.ret, cb[c].id))
    /\ cb' = [cb EXCEPT ![c] = IdleCall]
    /\ UNCHANGED <<next_block_id, data_channels, ab_lock, cb_calls, l_uplink,
                   control_downlink, data_downlink, samples, dev_blocks, dev_run,
                   router>>
    /\ UNCHANGED notLog

\* the caller drops the create_block() future at an await that is pending:
\* the guards the call holds are dropped with it
CancelCreate(c) ==
    /\ cur = "create_block"
    /\ \/ cb[c].pc \in {"cl_wait", "cr_wait"}
       \/ cb[c].pc \in {"cl_lock", "cr_ab"} /\ ab_lock # 0
       \/ cb[c].pc \in {"cl_ctl", "cr_ctl"} /\ ctl_lock # <<>>
    /\ cb' = [cb EXCEPT ![c] = IdleCall]
    /\ ctl_lock' = IF ctl_lock = <<"create", c>> THEN <<>> ELSE ctl_lock
    /\ ab_lock' = IF ab_lock = c THEN 0 ELSE ab_lock
    /\ UNCHANGED <<next_block_id, active_blocks, data_channels, log_blocks, cb_calls,
                   l_uplink, control_downlink, data_downlink, samples, dev_blocks,
                   dev_run, router, lhist>>
    /\ UNCHANGED notLog

\* add_variable() (APPEND_BLOCK_V2) or start() (START_BLOCK) is called on a
\* live block: it asks for the control mutex
BlockCall(b, k) ==
    /\ cur = "log_data" => k = START_BLOCK
    /\ cur # "drop_block"
    /\ b \in DOMAIN log_blocks
    /\ log_blocks[b].pc = "idle"
    /\ log_blocks[b].ops < MaxBlockOps
    /\ log_blocks' = [log_blocks EXCEPT ![b] = [pc |-> "lock", kind |-> k,
                                                ops |-> log_blocks[b].ops + 1]]
    /\ UNCHANGED <<next_block_id, active_blocks, data_channels, ctl_lock, ab_lock, cb,
                   cb_calls, l_uplink, control_downlink, data_downlink, samples,
                   dev_blocks, dev_run, router, lhist>>
    /\ UNCHANGED notLog

\* add_variable / start: the control mutex is taken and the request enqueued
BlockLock(b) ==
    /\ b \in DOMAIN log_blocks
    /\ log_blocks[b].pc = "lock"
    /\ ctl_lock = <<>>
    /\ ctl_lock' = <<"block", b>>
    /\ l_uplink' = Append(l_uplink, <<log_blocks[b].kind, b>>)
    /\ log_blocks' = [log_blocks EXCEPT ![b].pc = "wait"]
    /\ UNCHANGED <<next_block_id, active_blocks, data_channels, ab_lock, cb, cb_calls,
                   control_downlink, data_downlink, samples, dev_blocks, dev_run,
                   router, lhist>>
    /\ UNCHANGED notLog

\* add_variable / start: wait_packet; the matching reply ends the call.  A
\* start() that fails has consumed the LogBlock, which is dropped.
BlockRecv(b) ==
    /\ b \in DOMAIN log_blocks
    /\ log_blocks[b].pc = "wait"
    /\ control_downlink # <<>>
    /\ control_downlink' = Tail(control_downlink)
    /\ LET pk == Head(control_downlink) IN
       IF pk[1] = log_blocks[b].kind /\ pk[2] = b
       THEN /\ ctl_lock' = <<>>
            /\ IF pk[3] # 0 /\ log_blocks[b].kind = START_BLOCK
               THEN /\ log_blocks' = Without(log_blocks, b)
                    /\ lhist' = LogHistory("dropped", lhist.dropped \cup {b})
               ELSE /\ log_blocks' = [log_blocks EXCEPT ![b].pc = "idle"]
                    /\ UNCHANGED lhist
       ELSE UNCHANGED <<ctl_lock, log_blocks, lhist>>
    /\ UNCHANGED <<next_block_id, active_blocks, data_channels, ab_lock, cb, cb_calls,
                   l_uplink, data_downlink, samples, dev_blocks, dev_run, router>>
    /\ UNCHANGED notLog

\* the user drops the LogBlock / LogStream (with the call running on it, if
\* any): the canary and the data receiver go, a held control guard drops
DropBlock(b) ==
    /\ b \in DOMAIN log_blocks
    /\ log_blocks' = Without(log_blocks, b)
    /\ ctl_lock' = IF ctl_lock = <<"block", b>> THEN <<>> ELSE ctl_lock
    /\ lhist' = LogHistory("dropped", lhist.dropped \cup {b})
    /\ UNCHANGED <<next_block_id, active_blocks, data_channels, ab_lock, cb, cb_calls,
                   l_uplink, control_downlink, data_downlink, samples, dev_blocks,
                   dev_run, router>>
    /\ UNCHANGED notLog

\* the status byte the device answers a control request with, and its block
\* table after the request
DevStatus(pk, ok) ==
    IF pk[1] = CREATE_BLOCK_V2
    THEN IF pk[2] \in dev_blocks THEN 17 ELSE IF ok THEN 0 ELSE 12
    ELSE IF pk[2] \in dev_blocks THEN 0 ELSE 2

DevBlocksAfter(pk, ok) ==
    IF pk[1] = CREATE_BLOCK_V2 /\ ok THEN dev_blocks \cup {pk[2]}
    ELSE IF pk[1] = DELETE_BLOCK THEN dev_blocks \ {pk[2]}
    ELSE dev_blocks

DevRunAfter(pk) ==
    IF pk[1] = START_BLOCK /\ pk[2] \in dev_blocks THEN dev_run \cup {pk[2]}
    ELSE IF pk[1] = DELETE_BLOCK THEN dev_run \ {pk[2]}
    ELSE dev_run

\* the device handles the next control request and echoes it with a status
DevControl ==
    /\ l_uplink # <<>>
    /\ l_uplink' = Tail(l_uplink)
    /\ \E ok \in BOOLEAN :
         LET pk == Head(l_uplink) IN
         /\ ok \/ (pk[1] = CREATE_BLOCK_V2 /\ pk[2] \notin dev_blocks)
         /\ control_downlink' = Append(control_downlink,
                                       <<pk[1], pk[2], DevStatus(pk, ok)>>)
         /\ dev_blocks' = DevBlocksAfter(pk, ok)
         /\ dev_run' = DevRunAfter(pk)
    /\ UNCHANGED <<next_block_id, active_blocks, data_channels, log_blocks, ctl_lock,
                   ab_lock, cb, cb_calls, data_downlink, samples, router, lhist>>
    /\ UNCHANGED notLog

\* a started block emits a data packet; it reaches the data dispatcher's
\* receiver as long as that task has not dropped it
DevSample(b) ==
    /\ cur = "log_data"
    /\ b \in dev_run
    /\ samples < MaxSamples
    /\ samples' = samples + 1
    /\ data_downlink' = IF router = "run" THEN Append(data_downlink, b)
                        ELSE data_downlink
    /\ UNCHANGED <<next_block_id, active_blocks, data_channels, log_blocks, ctl_lock,
                   ab_lock, cb, cb_calls, l_uplink, control_downlink, dev_blocks,
                   dev_run, router, lhist>>
    /\ UNCHANGED notLog

\* the data dispatcher task, one turn of its loop: a packet of a block with
\* a registered sender is sent to it, and a failed send breaks the loop
RouterRecv ==
    /\ router = "run"
    /\ data_downlink # <<>>
    /\ data_downlink' = Tail(data_downlink)
    /\ LET b == Head(data_downlink) IN
       IF b \in data_channels
       THEN IF SendFails(b)
            THEN /\ router' = "done"
                 /\ lhist' = LogHistory("failed", lhist.failed \cup {b})
            ELSE /\ router' = router
                 /\ lhist' = LogHistory("got", lhist.got \cup {b})
       ELSE UNCHANGED <<router, lhist>>
    /\ UNCHANGED <<next_block_id, active_blocks, data_channels, log_blocks, ctl_lock,
                   ab_lock, cb, cb_calls, l_uplink, control_downlink, samples,
                   dev_blocks, dev_run>>
    /\ UNCHANGED notLog

\* the counter values a run starts from: a fresh connection, and a
\* connection whose counter is one short of u8::MAX
StartIds == {0, U8_MAX - 1}

LogKinds == {APPEND_BLOCK_V2, START_BLOCK}

\* what the application does in a run: concurrent create_block() calls that
\* may be cancelled, or one task that creates, starts and reads blocks, or
\* concurrent create_block() calls while a block created earlier is dropped
LogOps == {"create_block", "log_data", "drop_block"}

InitLog ==
    /\ InitConnVars
    /\ cur \in LogOps
    /\ InitOpVars
    /\ InitParamVars
    /\ InitReqVars
    /\ IF cur = "drop_block"
       THEN InitLogOneBlock
       ELSE next_block_id \in StartIds /\ InitLogMaps
    /\ InitMemVars
    /\ InitExtVars

NextLog ==
    \/ \E c \in Callers : CreateBlock(c)
    \/ \E c \in Callers : CleanupLock(c)
    \/ \E c \in Callers : CleanupScan(c)
    \/ \E c \in Callers : CleanupCtl(c)
    \/ \E c \in Callers : CleanupRecv(c)
    \/ \E c \in Callers : GenerateNextBlockId(c)
    \/ \E c \in Callers : CreateCtl(c)
    \/ \E c \in Callers : CreateRecv(c)
    \/ \E c \in Callers : CreateRegister(c)
    \/ \E c \in Callers : CancelCreate(c)
    \/ \E b \in DOMAIN log_blocks : \E k \in LogKinds : BlockCall(b, k)
    \/ \E b \in DOMAIN log_blocks : BlockLock(b)
    \/ \E b \in DOMAIN log_blocks : BlockRecv(b)
    \/ \E b \in DOMAIN log_blocks : DropBlock(b)
    \/ DevControl
    \/ \E b \in dev_run : DevSample(b)
    \/ RouterRecv

SpecLog == InitLog /\ [][NextLog]_vars

(***************************************************************************)
(* C11 (as stated): the block ids of the blocks returned by create_block() *)
(* are strictly increasing in the order in which the calls complete, also  *)
(* with concurrent callers.                                                *)
(***************************************************************************)
C11_IncreasingInCompletionOrder ==
    \A i, j \in DOMAIN lhist.ret : i < j => lhist.ret[i] < lhist.ret[j]

(***************************************************************************)
(* C11 (amended): block ids are strictly increasing in the order in which  *)
(* generate_next_block_id hands them out, every returned block carries an  *)
(* id handed out to its call, and no id is returned twice.                 *)
(***************************************************************************)
C11_IncreasingInAllocationOrder ==
    /\ \A i, j \in DOMAIN lhist.alloc : i < j => lhist.alloc[i] < lhist.alloc[j]
    /\ \A i, j \in DOMAIN lhist.ret : i # j => lhist.ret[i] # lhist.ret[j]
    /\ \A i \in DOMAIN lhist.ret : \E j \in DOMAIN lhist.alloc : lhist.alloc[j] = lhist.ret[i]
    /\ \A i \in DOMAIN lhist.alloc : lhist.alloc[i] < U8_MAX

\* two concurrent calls have both returned a block, the later id first
C11_Witness ==
    /\ Len(lhist.ret) = 2
    /\ lhist.ret[1] > lhist.ret[2]

(***************************************************************************)
(* C12: a create_block() call that has been handed its new id (and so any  *)
(* call that sends CREATE_BLOCK_V2) has behind it, for every block that    *)
(* had been dropped when the call began, a DELETE_BLOCK request for that   *)
(* block's id and its acknowledgement with status 0.                       *)
(***************************************************************************)
C12_DeleteBeforeCreate ==
    \A c \in Callers :
        cb[c].pc \in {"cr_ctl", "cr_wait", "cr_ab"} => cb[c].dead0 \subseteq lhist.acked

\* a call that began after a block had been dropped has sent CREATE_BLOCK_V2
C12_Witness ==
    \E c \in Callers :
        /\ cb[c].pc = "cr_wait"
        /\ cb[c].dead0 # {}
        /\ \E i \in DOMAIN l_uplink : l_uplink[i] = <<CREATE_BLOCK_V2, cb[c].id>>

(***************************************************************************)
(* C13 (as stated): every block that exists on the device is tracked by    *)
(* the library: it has an active_blocks entry (so it is owned by a live    *)
(* LogBlock / LogStream or will be deleted by a later create_block()), or  *)
(* the create_block() call that is creating it is still running.  This is  *)
(* to hold after failed and after cancelled calls as well.                 *)
(***************************************************************************)
C13_NoUntrackedBlock ==
    \A b \in dev_blocks :
        \/ b \in active_blocks
        \/ \E c \in Callers : cb[c].pc \in {"cr_wait", "cr_ab"} /\ cb[c].id = b

(***************************************************************************)
(* C14 (as stated): when the data dispatcher could not deliver a packet    *)
(* because the receiver of the addressed block was dropped, it has removed *)
(* that block's sender from data_channels and is still running, so that    *)
(* packets of other blocks are still delivered.                            *)
(***************************************************************************)
C14_RouterKeepsRunning ==
    lhist.failed # {} =>
        /\ router = "run"
        /\ lhist.failed \cap data_channels = {}

(***************************************************************************)
(* Memory subsystem (subsystems/memory): the loan of a backend to a typed  *)
(* view by open_memory / initialize_memory and its return by close_memory, *)
(* and the chunked read and write of MemoryBackend.                        *)
(***************************************************************************)
notMem == <<connVars, opVars, paramVars, reqVars, logVars, extVars>>

SlotKept(s) == s

\* Option::take(): what the slot holds afterwards
SlotAfterTake(s) == None

\* the view types: RawMemory accepts every memory, OwMemory only a OneWire
\* memory, which it reads and validates before the view exists
ViewTypes == {"Raw", "Ow"}

TypeAccepted(ty, m) == ty = "Raw" \/ MemType(m) = "OneWire"

\* open_memory / initialize_memory: the slot is locked and taken; None when
\* it is empty, else T::from_memory_backend runs on the backend
OpenMemory(c, m, ty) ==
    /\ cur = "memory_io" => (c = 1 /\ ty = "Raw")
    /\ mc[c].pc = "idle"
    /\ mc[c].view = None
    /\ mem_calls < MaxOpens
    /\ mem_calls' = mem_calls + 1
    /\ IF backends[m] = None
       THEN /\ mc' = [mc EXCEPT ![c] = [IdleMem EXCEPT !.mem = m, !.ty = ty, !.res = "none"]]
            /\ UNCHANGED backends
       ELSE /\ backends' = [backends EXCEPT ![m] = SlotAfterTake(backends[m])]
            /\ mc' = [mc EXCEPT ![c] =
                 IF ~TypeAccepted(ty, m)
                 THEN [IdleMem EXCEPT !.mem = m, !.ty = ty, !.res = "err"]
                 ELSE IF ty = "Raw"
                 THEN [IdleMem EXCEPT !.mem = m, !.ty = ty, !.res = "ok",
                                      !.view = backends[m]]
                 ELSE [IdleMem EXCEPT !.mem = m, !.ty = ty, !.pc = "reading"]]
    /\ UNCHANGED <<io, mem_uplink, mem_read_downlink, mem_write_downlink>>
    /\ UNCHANGED notMem

\* OwMemory::new / initialize: the reads and the validation of the content
\* end, with the view or with an error
OpenReadDone(c, ok) ==
    /\ mc[c].pc = "reading"
    /\ mc' = [mc EXCEPT ![c].pc = "idle",
                        ![c].res = IF ok THEN "ok" ELSE "err",
                        ![c].view = IF ok THEN Some(mc[c].mem) ELSE None]
    /\ UNCHANGED <<backends, mem_calls, io, mem_uplink, mem_read_downlink,
                   mem_write_downlink>>
    /\ UNCHANGED notMem

\* the caller drops the open_memory future while the initial read waits
CancelOpen(c) ==
    /\ mc[c].pc = "reading"
    /\ mc' = [mc EXCEPT ![c].pc = "idle", ![c].res = "cancelled"]
    /\ UNCHANGED <<backends, mem_calls, io, mem_uplink, mem_read_downlink,
                   mem_write_downlink>>
    /\ UNCHANGED notMem

\* close_memory: the view gives its backend, which goes to the slot of its
\* memory_id when that slot is empty
CloseMemory(c) ==
    /\ mc[c].view # None
    /\ io.pc = "done"
    /\ LET m == mc[c].view[1] IN
       backends' = IF backends[m] = None THEN [backends EXCEPT ![m] = mc[c].view]
                   ELSE backends
    /\ mc' = [mc EXCEPT ![c].view = None, ![c].res = "closed"]
    /\ UNCHANGED <<mem_calls, io, mem_uplink, mem_read_downlink, mem_write_downlink>>
    /\ UNCHANGED notMem

\* the addresses and lengths of the calls, inside the 32-bit address space
\* of the protocol
Addrs == {0, MaxAddr, 2^30}

Lens == {0, MEM_MAX_REQUEST_SIZE, MaxLen}

\* (current_address as u32): the low 32 bits, taken in two 16-bit halves
AsU32(a) == (a % 2^16) + 2^16 * ((a \div 2^16) % 2^16)

\* std::cmp::min(MEM_MAX_REQUEST_SIZE, (address + length) - current_address)
WholeRest(r) == (r.address + r.length) - r.current_address

\* std::cmp::min(MEM_MAX_REQUEST_SIZE, (address + length) - current_address)
ChunkSize(r) ==
    IF (r.address + r.length) - r.current_address < MEM_MAX_REQUEST_SIZE
    THEN (r.address + r.length) - r.current_address
    ELSE MEM_MAX_REQUEST_SIZE

\* the chunks acknowledged with status 0 so far
OkAcks(r) == Cardinality({i \in DOMAIN r.acks : r.acks[i] = 0})

\* progress_callback(current_address - address, length), with the number of
\* chunks the device had acknowledged with status 0 when it was called
Progress(r, cur_addr) ==
    Append(r.prog, [done |-> cur_addr - r.address, total |-> r.length, oks |-> OkAcks(r)])

ReadNeverFails(status) == FALSE

\* the status that makes read() return an error
ReadFails(status) == status # 0

\* RawMemory::read_with_progress / write_with_progress is called on the view
IoCall(c, k, a, l) ==
    /\ cur = "memory_io"
    /\ mc[c].view # None
    /\ io.kind = "none"
    /\ io' = [IdleIo EXCEPT !.kind = k, !.pc = "loop", !.mem = mc[c].view[1],
                            !.address = a, !.length = l, !.current_address = a]
    /\ UNCHANGED <<backends, mc, mem_calls, mem_uplink, mem_read_downlink,
                   mem_write_downlink>>
    /\ UNCHANGED notMem

\* read: the loop test, and one request for the next chunk
ReadLoop ==
    /\ io.kind = "read"
    /\ io.pc = "loop"
    /\ IF io.current_address < io.address + io.length
       THEN LET rq3 == <<io.mem, AsU32(io.current_address), ChunkSize(io)>> IN
            /\ mem_uplink' = Append(mem_uplink, <<"read">> \o rq3)
            /\ io' = [io EXCEPT !.pc = "wait", !.req = rq3,
                                !.reqs = Append(io.reqs, <<rq3[2], rq3[3]>>)]
       ELSE /\ io' = [io EXCEPT !.pc = "done", !.res = "ok"]
            /\ UNCHANGED mem_uplink
    /\ UNCHANGED <<backends, mc, mem_calls, mem_read_downlink, mem_write_downlink>>
    /\ UNCHANGED notMem

\* read: wait_packet on the request's first five bytes; status 0 copies the
\* data, advances and reports progress, any other status returns an error
ReadRecv ==
    /\ io.kind = "read"
    /\ io.pc = "wait"
    /\ mem_read_downlink # <<>>
    /\ mem_read_downlink' = Tail(mem_read_downlink)
    /\ LET pk == Head(mem_read_downlink) IN
       IF pk[1] = io.req[1] /\ pk[2] = io.req[2]
       THEN IF pk[2] = AsU32(io.current_address) /\ ~ReadFails(pk[3])
            THEN io' = [io EXCEPT !.pc = "loop",
                                  !.acks = Append(io.acks, pk[3]),
                                  !.current_address = io.current_address + io.req[3],
                                  !.prog = Progress([io EXCEPT !.acks = Append(io.acks, pk[3])],
                                                    io.current_address + io.req[3])]
            ELSE io' = [io EXCEPT !.pc = "done", !.res = "err",
                                  !.acks = Append(io.acks, pk[3])]
       ELSE UNCHANGED io
    /\ UNCHANGED <<backends, mc, mem_calls, mem_uplink, mem_write_downlink>>
    /\ UNCHANGED notMem

\* write: the loop test, one request for the next chunk, the advance and
\* the progress report
WriteLoop ==
    /\ io.kind = "write"
    /\ io.pc = "loop"
    /\ IF io.current_address < io.address + io.length
       THEN LET rq3 == <<io.mem, AsU32(io.current_address), ChunkSize(io)>> IN
            /\ mem_uplink' = Append(mem_uplink, <<"write">> \o rq3)
            /\ io' = [io EXCEPT !.pc = "wait", !.req = rq3,
                                !.reqs = Append(io.reqs, <<rq3[2], rq3[3]>>),
                                !.current_address = io.current_address + rq3[3],
                                !.prog = Progress(io, io.current_address + rq3[3])]
       ELSE /\ io' = [io EXCEPT !.pc = "done", !.res = "ok"]
            /\ UNCHANGED mem_uplink
    /\ UNCHANGED <<backends, mc, mem_calls, mem_read_downlink, mem_write_downlink>>
    /\ UNCHANGED notMem

\* write: wait_packet on the request's first five bytes; the reply is
\* dropped unread
WriteRecv ==
    /\ io.kind = "write"
    /\ io.pc = "wait"
    /\ mem_write_downlink # <<>>
    /\ mem_write_downlink' = Tail(mem_write_downlink)
    /\ LET pk == Head(mem_write_downlink) IN
       IF pk[1] = io.req[1] /\ pk[2] = io.req[2]
       THEN io' = [io EXCEPT !.pc = "loop", !.acks = Append(io.acks, pk[3])]
       ELSE UNCHANGED io
    /\ UNCHANGED <<backends, mc, mem_calls, mem_uplink, mem_read_downlink>>
    /\ UNCHANGED notMem

\* the device answers the next request, with status 0 or with an error code
DevMemory(status) ==
    /\ mem_uplink # <<>>
    /\ mem_uplink' = Tail(mem_uplink)
    /\ LET pk == Head(mem_uplink) IN
       IF pk[1] = "read"
       THEN /\ mem_read_downlink' = Append(mem_read_downlink, <<pk[2], pk[3], status>>)
            /\ UNCHANGED mem_write_downlink
       ELSE /\ mem_write_downlink' = Append(mem_write_downlink, <<pk[2], pk[3], status>>)
            /\ UNCHANGED mem_read_downlink
    /\ UNCHANGED <<backends, mc, mem_calls, io>>
    /\ UNCHANGED notMem

\* what the application does in a run: concurrent opens and closes of typed
\* views, or one task that opens a raw view and reads or writes through it
MemOps == {"open_memory", "memory_io"}

InitMem ==
    /\ InitConnVars
    /\ cur \in MemOps
    /\ InitOpVars
    /\ InitParamVars
    /\ InitReqVars
    /\ InitLogVars
    /\ InitMemVars
    /\ InitExtVars

NextMem ==
    \/ \E c \in Callers : \E m \in MemIds : \E ty \in ViewTypes : OpenMemory(c, m, ty)
    \/ \E c \in Callers : \E ok \in BOOLEAN : OpenReadDone(c, ok)
    \/ \E c \in Callers : CancelOpen(c)
    \/ \E c \in Callers : CloseMemory(c)
    \/ \E c \in Callers : \E k \in {"read", "write"} : \E a \in Addrs : \E l \in Lens :
           IoCall(c, k, a, l)
    \/ ReadLoop
    \/ ReadRecv
    \/ WriteLoop
    \/ WriteRecv
    \/ \E status \in {0, 1} : DevMemory(status)

SpecMem == InitMem /\ [][NextMem]_vars

(***************************************************************************)
(* C15: for every memory_id at most one typed view obtained through        *)
(* open_memory / initialize_memory is outstanding, under every             *)
(* interleaving of concurrent opens and closes; the backend is never in    *)
(* its slot while a view of it is outstanding.                             *)
(***************************************************************************)
C15_OneViewPerMemory ==
    \A m \in MemIds :
        /\ Cardinality({c \in Callers : mc[c].view = Some(m)}) <= 1
        /\ (\E c \in Callers : mc[c].view = Some(m)) => backends[m] = None

\* a view of a memory is outstanding and a second open of the same memory
\* has returned None
C15_Witness ==
    \E c, d \in Callers :
        /\ c # d
        /\ mc[c].view # None
        /\ mc[d].ty # "none"
        /\ mc[d].res = "none"
        /\ mc[d].mem = mc[c].view[1]

(***************************************************************************)
(* C16 (as stated): when open_memory / initialize_memory has failed (wrong *)
(* type, or a failed initial read or validation), the backend is in its    *)
(* slot again.                                                             *)
(***************************************************************************)
C16_BackendBackAfterFailedOpen ==
    \A c \in Callers : mc[c].res = "err" => backends[mc[c].mem] # None

(***************************************************************************)
(* C17 (as stated): when the device has answered a chunk of a write with a *)
(* status other than 0, the write sends no further chunk and does not      *)
(* return success.                                                         *)
(***************************************************************************)
C17_WriteStopsOnError ==
    io.kind = "write" =>
        \A i \in DOMAIN io.acks :
            io.acks[i] # 0 => (Len(io.reqs) = i /\ io.res # "ok")

(***************************************************************************)
(* C18: when the device has answered a chunk of a read with a status other *)
(* than 0, the read has returned an error (and so no data) at that reply   *)
(* and has sent no request after the one that failed.                      *)
(***************************************************************************)
C18_ReadStopsOnError ==
    io.kind = "read" =>
        \A i \in DOMAIN io.acks :
            io.acks[i] # 0 => (Len(io.reqs) = i /\ io.res = "err" /\ io.pc = "done")

\* a read of several chunks has failed at a chunk after the first
C18_Witness ==
    /\ io.kind = "read"
    /\ io.res = "err"
    /\ Len(io.acks) > 1
    /\ io.current_address < io.address + io.length

(***************************************************************************)
(* C19: a read of L bytes at address A sends requests of at most 24 bytes  *)
(* each, the first at A and each next one at the end of the one before,    *)
(* sends the next request only after the reply to the previous one has     *)
(* been consumed, and when it returns the data it has sent exactly         *)
(* ceil(L / 24) requests, which end at A + L.                              *)
(***************************************************************************)
C19_ReadChunks ==
    io.kind = "read" =>
        /\ \A k \in DOMAIN io.reqs :
             /\ io.reqs[k][2] >= 1
             /\ io.reqs[k][2] <= MEM_MAX_REQUEST_SIZE
             /\ io.reqs[k][1] = IF k = 1 THEN io.address
                                ELSE io.reqs[k - 1][1] + io.reqs[k - 1][2]
        /\ Len(io.reqs) <= Len(io.acks) + 1
        /\ Len(mem_uplink) + Len(mem_read_downlink) <= 1
        /\ (Len(mem_uplink) + Len(mem_read_downlink) = 1) => Len(io.reqs) = Len(io.acks) + 1
        /\ io.res = "ok" =>
             /\ Len(io.reqs) = (io.length + MEM_MAX_REQUEST_SIZE - 1) \div MEM_MAX_REQUEST_SIZE
             /\ io.length > 0 =>
                  io.reqs[Len(io.reqs)][1] + io.reqs[Len(io.reqs)][2] = io.address + io.length

\* a read that needed three requests, the last one shorter, has returned
C19_Witness ==
    /\ io.kind = "read"
    /\ io.res = "ok"
    /\ Len(io.reqs) = 3
    /\ io.reqs[3][2] < MEM_MAX_REQUEST_SIZE
    /\ io.address > 0

(***************************************************************************)
(* C20 (as stated): the progress callback of a read or write is invoked    *)
(* once per chunk and only after the device has acknowledged that chunk    *)
(* with status 0, with bytes_done strictly increasing and equal to the     *)
(* total at the last call of a successful transfer; after a chunk that     *)
(* failed it is not invoked again.                                         *)
(***************************************************************************)
C20_ProgressAfterAck ==
    io.kind # "none" =>
        /\ \A i \in DOMAIN io.prog :
             /\ io.prog[i].oks >= i
             /\ i > 1 => io.prog[i].done > io.prog[i - 1].done
        /\ Len(io.prog) <= Len(io.reqs)
        /\ \A j \in DOMAIN io.acks : io.acks[j] # 0 => Len(io.prog) < j
        /\ (io.res = "ok" /\ io.length > 0) =>
             io.prog[Len(io.prog)].done = io.prog[Len(io.prog)].total

(***************************************************************************)
(* TOC discovery: fetch_toc (crtp_utils.rs), called by Param::new and      *)
(* Log::new with the TocCache of the application.                          *)
(***************************************************************************)
\* ParamItemInfo::try_from: the value type named by the low nibble
ParamItemType ==
    (8 :> "U8") @@ (9 :> "U16") @@ (10 :> "U32") @@ (11 :> "U64") @@ (0 :> "I8") @@
    (1 :> "I16") @@ (2 :> "I32") @@ (3 :> "I64") @@ (5 :> "F16") @@ (6 :> "F32") @@
    (7 :> "F64")

\* LogItemInfo::try_from: the value type named by the type byte
LogItemType ==
    (1 :> "U8") @@ (2 :> "U16") @@ (3 :> "U32") @@ (4 :> "I8") @@ (5 :> "I16") @@
    (6 :> "I32") @@ (7 :> "F32") @@ (8 :> "F16")

KnownType(k, b) ==
    IF k = "param" THEN (b % 16) \in DOMAIN ParamItemType ELSE b \in DOMAIN LogItemType

\* T::try_from(type byte) of a known type
ItemInfo(k, b) ==
    IF k = "param"
    THEN [item_type |-> ParamItemType[b % 16], writable |-> (b \div 64) % 2 = 0,
          has_extended_type |-> (b \div 16) % 2 = 1]
    ELSE [item_type |-> LogItemType[b]]

\* the fields serde requires of a serialised item of each subsystem
ItemFields(k) ==
    IF k = "param" THEN {"item_type", "writable", "has_extended_type"} ELSE {"item_type"}

\* slice.split(|b| *b == 0): the pieces between the zero bytes
RECURSIVE SplitZero(_)
SplitZero(s) ==
    LET zs == {j \in 1..Len(s) : s[j] = 0}
    IN  IF zs = {} THEN <<s>>
        ELSE LET z == CHOOSE j \in zs : \A j2 \in zs : j <= j2
             IN  <<SubSeq(s, 1, z - 1)>> \o SplitZero(SubSeq(s, z + 1, Len(s)))

\* the body of the item loop on the reply data d: a panic of the indexing or of
\* expect(), the error of try_into, or the entry to insert
ParseItem(k, d) ==
    IF Len(d) < 4 THEN [res |-> "panic"]
    ELSE LET strings == SplitZero(SubSeq(d, 5, Len(d)))
         IN  IF Len(strings) < 2 THEN [res |-> "panic"]
             ELSE IF ~KnownType(k, d[4])
             THEN [res |-> IF k = "param" THEN "ParamError" ELSE "ProtocolError"]
             ELSE [res |-> "Ok",
                   entry |-> [name |-> strings[1] \o <<46>> \o strings[2],
                              id |-> d[2] + 256 * d[3],
                              info |-> ItemInfo(k, d[4])]]

\* BTreeMap::insert: the new entry replaces the one of the same name
TocInsert(toc, e) == {x \in toc : x.name # e.name} \cup {e}

\* serde_json::from_str of a stored TOC as the map type of subsystem k: fails
\* on an item without a required field, ignores the other fields
FromStr(k, str) ==
    IF \A e \in str : ItemFields(k) \subseteq DOMAIN e.info
    THEN [res |-> "Ok",
          toc |-> {[name |-> e.name, id |-> e.id,
                    info |-> [f \in ItemFields(k) |-> e.info[f]]] : e \in str}]
    ELSE [res |-> "InvalidParameter", toc |-> {}]

\* the device: the well-formed reply to GET_ITEM i, "g" 0 name 0 after the type
GoodItem(i) == <<TOC_GET_ITEM, i % 256, i \div 256, 6, 103, 0, 110 + i, 0>>

\* the replies a device may give: well-formed, cut after the index, without a
\* zero byte, with an unterminated name, with an unknown type byte
Replies(i) ==
    {GoodItem(i), SubSeq(GoodItem(i), 1, 3),
     <<TOC_GET_ITEM, i % 256, i \div 256, 6, 103, 110 + i>>,
     SubSeq(GoodItem(i), 1, 7),
     [GoodItem(i) EXCEPT ![4] = 12]}

\* a reply that is too short, lacks a zero-terminated group or name, or
\* carries an unknown type byte
Malformed(k, d) ==
    \/ Len(d) < 4
    \/ Cardinality({j \in 5..Len(d) : d[j] = 0}) < 2
    \/ ~KnownType(k, d[4])

notToc == <<connVars, opVars, paramVars, reqVars, logVars, memVars, pureVars, consoleVars,
           supVars, moreVars>>

\* fetch_toc up to the cache lookup: the TOC_INFO exchange, then the cached
\* TOC if the key is present
FetchToc(k) ==
    /\ cur = "toc"
    /\ fetches < MaxFetch
    /\ tc[k].pc = "idle"
    /\ fetches' = fetches + 1
    /\ LET toc_str == toc_cache[CacheKey(dev_crc[k])]
       IN  IF toc_str # None
           THEN /\ tc' = tc
                /\ tdone' = tdone \cup
                       {[kind |-> k, key |-> CacheKey(dev_crc[k]), hit |-> TRUE,
                         bad |-> FALSE, res |-> FromStr(k, toc_str[1]).res,
                         toc |-> FromStr(k, toc_str[1]).toc]}
           ELSE /\ tc' = [tc EXCEPT ![k] = [IdleToc EXCEPT !.pc = "items",
                                             !.len = MaxItems, !.crc = dev_crc[k]]]
                /\ tdone' = tdone
    /\ UNCHANGED <<toc_cache, dev_crc>>
    /\ UNCHANGED notToc

\* one round of the item loop with the reply d of the device
TocItem(k, d) ==
    /\ tc[k].pc = "items"
    /\ tc[k].i < tc[k].len
    /\ d \in Replies(tc[k].i)
    /\ LET r == ParseItem(k, d)
           bad == tc[k].bad \/ Malformed(k, d)
       IN  IF r.res = "Ok"
           THEN /\ tc' = [tc EXCEPT ![k].i = @ + 1, ![k].bad = bad,
                                    ![k].toc = TocInsert(@, r.entry)]
                /\ tdone' = tdone
           ELSE /\ tc' = [tc EXCEPT ![k] = IdleToc]
                /\ tdone' = tdone \cup
                       {[kind |-> k, key |-> CacheKey(tc[k].crc), hit |-> FALSE,
                         bad |-> bad, res |-> r.res, toc |-> {}]}
    /\ UNCHANGED <<toc_cache, dev_crc, fetches>>
    /\ UNCHANGED notToc

\* (variant: the loop is left after its first round)
LoopStarted(k) == tc[k].i >= 1

\* for i in 0..toc_len has run through every index
LoopDone(k) == tc[k].i = tc[k].len

\* after the loop: serialise, store_toc, return the TOC
TocStore(k) ==
    /\ tc[k].pc = "items"
    /\ LoopDone(k)
    /\ toc_cache' = [toc_cache EXCEPT ![CacheKey(tc[k].crc)] = Some(tc[k].toc)]
    /\ tc' = [tc EXCEPT ![k] = IdleToc]
    /\ tdone' = tdone \cup
           {[kind |-> k, key |-> CacheKey(tc[k].crc), hit |-> FALSE,
             bad |-> tc[k].bad, res |-> "Ok", toc |-> tc[k].toc]}
    /\ UNCHANGED <<dev_crc, fetches>>
    /\ UNCHANGED notToc

InitToc ==
    /\ InitConnVars
    /\ cur = "toc"
    /\ InitOpVars
    /\ InitParamVars
    /\ InitReqVars
    /\ InitLogVars
    /\ InitMemVars
    /\ dev_crc \in [TocKinds -> Crcs]
    /\ InitTocMaps
    /\ InitPureVars
    /\ InitConsoleVars
    /\ InitSupVars
    /\ InitMoreVars

NextToc ==
    \/ \E k \in TocKinds : FetchToc(k)
    \/ \E k \in TocKinds : \E i \in 0..MaxItems : \E d \in Replies(i) :
           TocItem(k, d)
    \/ \E k \in TocKinds : TocStore(k)

SpecToc == InitToc /\ [][NextToc]_vars

(***************************************************************************)
(* C21: a discovery that received a malformed GET_ITEM reply (too short,   *)
(* without a zero-terminated group or name, or with an unknown type byte)  *)
(* returned an error to its caller and returned no TOC.                    *)
(***************************************************************************)
C21_MalformedItemIsError ==
    \A r \in tdone :
        r.bad => /\ r.res \in {"ProtocolError", "ParamError", "InvalidParameter"}
                 /\ r.toc = {}

(***************************************************************************)
(* C22: any two discoveries that computed the same cache key and received  *)
(* only well-formed replies returned the same result and the same TOC map, *)
(* whichever subsystem performed each of them.                             *)
(***************************************************************************)
C22_SameKeySameToc ==
    \A a, b \in tdone :
        (a.key = b.key /\ ~a.bad /\ ~b.bad) => (a.res = b.res /\ a.toc = b.toc)

(***************************************************************************)
(* Packet construction and decoding: the app channel sink                  *)
(* (platform.rs), send_short_lpp_packet (localization.rs) and              *)
(* LogStream::decode_packet (log.rs), each applied to one argument.        *)
(***************************************************************************)
\* a byte vector of n bytes
Bytes(n) == [j \in 1..n |-> 0]

\* the bytes of a timestamp the device may send
TsBytes == {0, 1, 127}

\* u32::from_le_bytes
RECURSIVE FromLeBytes(_)
FromLeBytes(s) == IF s = <<>> THEN 0 ELSE s[1] + 256 * FromLeBytes(Tail(s))

\* AppChannelPacket::try_from followed by the sink of get_app_channel: the
\* packet enqueued on the uplink, or the error of the conversion
AppChannelSend ==
    /\ call.op = "app_channel"
    /\ ret = None
    /\ ret' = IF Len(call.arg) <= APPCHANNEL_MTU
              THEN Some([res |-> "Ok", data |-> call.arg])
              ELSE Some([res |-> "AppchannelPacketTooLarge"])
    /\ UNCHANGED <<call, connVars, opVars, paramVars, reqVars, logVars, memVars, tocVars,
                   consoleVars, supVars, moreVars>>

\* LocoPositioning::send_short_lpp_packet(dest_id, data)
SendShortLppPacket ==
    /\ call.op = "send_short_lpp_packet"
    /\ ret = None
    /\ ret' = Some([res |-> "Ok",
                    data |-> <<LPS_SHORT_LPP_PACKET, call.arg.dest_id>> \o call.arg.data])
    /\ UNCHANGED <<call, connVars, opVars, paramVars, reqVars, logVars, memVars, tocVars,
                   consoleVars, supVars, moreVars>>

\* LogStream::next on a block without variables: decode_packet of the DATA
\* payload without its block id
DecodePacket ==
    /\ call.op = "decode_packet"
    /\ ret = None
    /\ LET data == Tail(call.arg)
       IN  ret' = Some([res |-> "Ok",
                        timestamp |-> FromLeBytes(<<0>> \o SubSeq(data, 1, 3))])
    /\ UNCHANGED <<call, connVars, opVars, paramVars, reqVars, logVars, memVars, tocVars,
                   consoleVars, supVars, moreVars>>

InitPure ==
    /\ InitConnVars
    /\ cur = "pure"
    /\ InitOpVars
    /\ InitParamVars
    /\ InitReqVars
    /\ InitLogVars
    /\ InitMemVars
    /\ InitTocVars
    /\ InitConsoleVars
    /\ InitSupVars
    /\ InitMoreVars
    /\ ret = None
    /\ \/ \E n \in 0..MaxData : call = [op |-> "app_channel", arg |-> Bytes(n)]
       \/ \E n \in 0..MaxData : \E d \in {0, 255} :
              call = [op |-> "send_short_lpp_packet",
                      arg |-> [dest_id |-> d, data |-> Bytes(n)]]
       \/ \E b \in {0, 1} : \E t0, t1, t2 \in TsBytes :
              call = [op |-> "decode_packet", arg |-> <<b, t0, t1, t2>>]

NextPure == AppChannelSend \/ SendShortLppPacket \/ DecodePacket

SpecPure == InitPure /\ [][NextPure]_vars

(***************************************************************************)
(* C23: no packet enqueued on the uplink by the app channel sink or by     *)
(* send_short_lpp_packet has a payload longer than 30 bytes, whatever      *)
(* argument the call accepted.                                             *)
(***************************************************************************)
C23_PayloadAtMost30 ==
    (call.op \in {"app_channel", "send_short_lpp_packet"} /\ ret # None /\ ret[1].res = "Ok")
        => Len(ret[1].data) <= 30

(***************************************************************************)
(* C24: the timestamp of the sample decoded from the DATA payload          *)
(* [block_id, ts0, ts1, ts2] is ts0 + 256*ts1 + 65536*ts2, a value below   *)
(* 2^24.                                                                   *)
(***************************************************************************)
C24_TimestampLittleEndian24 ==
    (call.op = "decode_packet" /\ ret # None) =>
        /\ ret[1].timestamp = call.arg[2] + 256 * call.arg[3] + 65536 * call.arg[4]
        /\ ret[1].timestamp < 2^24

(***************************************************************************)
(* Console (subsystems/console.rs): the task spawned by Console::new and   *)
(* the streams handed out by stream() and line_stream().                   *)
(***************************************************************************)
\* the texts of the console packets of the device: "a", "b\n" and "c\nd\n"
Texts == {<<97>>, <<98, 10>>, <<99, 10, 100, 10>>}

\* Sender::broadcast in overflow mode: the oldest message is dropped when the
\* channel is full
Broadcast(q, m) == IF Len(q) >= BROADCAST_CAP THEN Tail(q) \o <<m>> ELSE q \o <<m>>

\* the position of the first newline of s, 0 if there is none
NewlineAt(s) ==
    IF \E j \in 1..Len(s) : s[j] = 10
    THEN CHOOSE j \in 1..Len(s) : s[j] = 10 /\ \A j2 \in 1..(j - 1) : s[j2] # 10
    ELSE 0

notConsole == <<connVars, opVars, paramVars, reqVars, logVars, memVars, tocVars, pureVars,
               supVars, moreVars>>

\* the console task receives a packet and appends its text to the history
ConsoleRecv(text) ==
    /\ cur = "console"
    /\ con.pc = "recv"
    /\ con.n < MaxPackets
    /\ console_buffer' = console_buffer \o text
    /\ con' = [pc |-> "broadcast", text |-> text, n |-> con.n + 1]
    /\ UNCHANGED <<console_lines, line_buffer, stream_q, line_q, cs>>
    /\ UNCHANGED notConsole

\* the task broadcasts the text, then extracts a completed line into the
\* line history
ConsoleBroadcast ==
    /\ con.pc = "broadcast"
    /\ stream_q' = Broadcast(stream_q, con.text)
    /\ LET buf == line_buffer \o con.text
           nl == NewlineAt(buf)
       IN  IF nl > 0
           THEN /\ line_buffer' = SubSeq(buf, nl + 1, Len(buf))
                /\ console_lines' = Append(console_lines, SubSeq(buf, 1, nl - 1))
                /\ con' = [con EXCEPT !.pc = "line_broadcast",
                                      !.text = SubSeq(buf, 1, nl - 1)]
           ELSE /\ line_buffer' = buf
                /\ console_lines' = console_lines
                /\ con' = [con EXCEPT !.pc = "recv", !.text = <<>>]
    /\ UNCHANGED <<console_buffer, line_q, cs>>
    /\ UNCHANGED notConsole

\* the task broadcasts the extracted line
ConsoleLineBroadcast ==
    /\ con.pc = "line_broadcast"
    /\ line_q' = Broadcast(line_q, con.text)
    /\ con' = [con EXCEPT !.pc = "recv", !.text = <<>>]
    /\ UNCHANGED <<console_buffer, console_lines, line_buffer, stream_q, cs>>
    /\ UNCHANGED notConsole

\* Console::stream / Console::line_stream: the history copied under its lock,
\* chained with a clone of the receiver kept in the Console, which has never
\* received and so has every message of the channel queued
ConsoleStream(kind) ==
    /\ cur = "console"
    /\ cs.kind = "none"
    /\ cs' = [kind |-> kind,
              history |-> IF kind = "stream" THEN <<console_buffer>> ELSE console_lines,
              pos |-> 0]
    /\ UNCHANGED <<console_buffer, console_lines, line_buffer, stream_q, line_q, con>>
    /\ UNCHANGED notConsole

\* the items the stream yields to a consumer that polls it to the end
Yielded ==
    LET q == IF cs.kind = "stream" THEN stream_q ELSE line_q
    IN  cs.history \o SubSeq(q, cs.pos + 1, Len(q))

RECURSIVE Flat(_)
Flat(ss) == IF ss = <<>> THEN <<>> ELSE Head(ss) \o Flat(Tail(ss))

InitConsole ==
    /\ InitConnVars
    /\ cur = "console"
    /\ InitOpVars
    /\ InitParamVars
    /\ InitReqVars
    /\ InitLogVars
    /\ InitMemVars
    /\ InitExtVars

NextConsole ==
    \/ \E text \in Texts : ConsoleRecv(text)
    \/ ConsoleBroadcast
    \/ ConsoleLineBroadcast
    \/ \E kind \in {"stream", "line_stream"} : ConsoleStream(kind)

SpecConsole == InitConsole /\ [][NextConsole]_vars

(***************************************************************************)
(* C25: once the console task has finished the packets it received, the    *)
(* consumer of stream() has been given every chunk received since          *)
(* connection exactly once and in order, and the consumer of line_stream() *)
(* every completed line exactly once and in order.                         *)
(***************************************************************************)
C25_EveryChunkOnce ==
    con.pc = "recv" =>
        /\ cs.kind = "stream" => Flat(Yielded) = console_buffer
        /\ cs.kind = "line_stream" => Yielded = console_lines

\* C39: once the console task has finished a packet, no newline-terminated
\* line is left in its line buffer: every line whose newline has been
\* received has been pushed to the line history and broadcast.
C39_NoLineHeldBack ==
    con.pc = "recv" => NewlineAt(line_buffer) = 0

(***************************************************************************)
(* Supervisor::read_bitfield called by concurrent tasks                    *)
(* (subsystems/supervisor.rs).                                             *)
(***************************************************************************)
notSup == <<connVars, paramVars, reqVars, logVars, memVars, tocVars, pureVars, consoleVars,
           moreVars>>

\* read_bitfield up to its first await: the cached value if it is recent,
\* otherwise the request is enqueued on the uplink
ReadBitfield(c) ==
    /\ cur = "read_bitfield"
    /\ sup_reads < MaxReads
    /\ sv[c].pc = "idle"
    /\ sup_reads' = sup_reads + 1
    /\ IF sup_cached /\ sup_fresh
       THEN /\ sv' = [sv EXCEPT ![c] = [pc |-> "idle", res |-> "cache"]]
            /\ UNCHANGED sup_uplink
       ELSE /\ sv' = [sv EXCEPT ![c] = [pc |-> "lock", res |-> "none"]]
            /\ sup_uplink' = Append(sup_uplink, c)
    /\ UNCHANGED <<info_lock, info_downlink, opVars>>
    /\ UNCHANGED notSup

\* wait_for_bitfield: info_downlink.lock().await
WaitForBitfieldLock(c) ==
    /\ sv[c].pc = "lock"
    /\ info_lock = 0
    /\ info_lock' = c
    /\ sv' = [sv EXCEPT ![c].pc = "recv"]
    /\ UNCHANGED <<sup_uplink, info_downlink, sup_reads, opVars>>
    /\ UNCHANGED notSup

\* wait_for_bitfield: the next reply within 1000 ms, which is stored in the
\* cache, or Error::Timeout; the guard is dropped on return
WaitForBitfieldRecv(c) ==
    /\ sv[c].pc = "recv"
    /\ info_lock' = 0
    /\ IF info_downlink # <<>>
       THEN /\ info_downlink' = Tail(info_downlink)
            /\ sv' = [sv EXCEPT ![c] = [pc |-> "idle", res |-> "device"]]
            /\ sup_cached' = TRUE
            /\ sup_fresh' \in BOOLEAN
       ELSE /\ sv' = [sv EXCEPT ![c] = [pc |-> "idle", res |-> "timeout"]]
            /\ UNCHANGED <<info_downlink, sup_cached, sup_fresh>>
    /\ UNCHANGED <<sup_uplink, sup_reads, chd, stage2, rp, op, values_c>>
    /\ UNCHANGED notSup

\* the device answers the oldest request with its state bitfield
DevSupervisor ==
    /\ sup_uplink # <<>>
    /\ sup_uplink' = Tail(sup_uplink)
    /\ info_downlink' = Append(info_downlink, Head(sup_uplink))
    /\ UNCHANGED <<sv, info_lock, sup_reads, opVars>>
    /\ UNCHANGED notSup

InitSup ==
    /\ InitConnVars
    /\ cur = "read_bitfield"
    /\ InitOpVars
    /\ InitParamVars
    /\ InitReqVars
    /\ InitLogVars
    /\ InitMemVars
    /\ InitExtVars

NextSup ==
    \/ \E c \in Callers : ReadBitfield(c)
    \/ \E c \in Callers : WaitForBitfieldLock(c)
    \/ \E c \in Callers : WaitForBitfieldRecv(c)
    \/ DevSupervisor
    \/ TtlExpire

SpecSup == InitSup /\ [][NextSup]_vars

(***************************************************************************)
(* C26: on the supervisor INFO channel at most one request is in flight    *)
(* (sent and its reply not yet consumed), and a call whose request is in   *)
(* flight holds the mutex of the channel.                                  *)
(***************************************************************************)
C26_OneRequestInFlight ==
    /\ Len(sup_uplink) + Len(info_downlink) <= 1
    /\ \A c \in Callers :
           (\E j \in DOMAIN sup_uplink : sup_uplink[j] = c) => info_lock = c

(***************************************************************************)
(* C27: at every moment a create_block() call in progress holds at most    *)
(* one of the mutexes of the Log subsystem (active_blocks, control         *)
(* downlink).                                                              *)
(***************************************************************************)
C27_AtMostOneMutex ==
    \A c \in Callers : ~(ab_lock = c /\ ctl_lock = <<"create", c>>)

(***************************************************************************)
(* C28: no two create_block() calls wait for each other: never does one    *)
(* call hold the control mutex and wait for the active_blocks mutex while  *)
(* the holder of the active_blocks mutex waits for the control mutex.      *)
(***************************************************************************)
C28_NoCircularWait ==
    ~ \E a, b \in Callers :
        /\ a # b
        /\ cb[a].pc = "cr_ab" /\ ctl_lock = <<"create", a>>
        /\ cb[b].pc = "cl_ctl" /\ ab_lock = b

(***************************************************************************)
(* C29: for every memory, the slot holds the backend if and only if no     *)
(* typed view of that memory is outstanding and no open of it is in        *)
(* progress.                                                               *)
(***************************************************************************)
C29_SlotIffNoView ==
    \A m \in MemIds :
        (backends[m] # None) <=>
            ~ \E c \in Callers : \/ mc[c].view = Some(m)
                                 \/ mc[c].pc = "reading" /\ mc[c].mem = m

(***************************************************************************)
(* C30: once the disconnect flag is set, the uplink pump and the downlink  *)
(* dispatcher terminate, and after the dispatcher the tasks fed by it: the *)
(* per-port tasks (channel fan-outs, console and localization              *)
(* broadcasters) and the tasks behind a fan-out (memory dispatcher, log    *)
(* data router, param MISC listener).                                      *)
(***************************************************************************)
C30_TasksTerminate ==
    disconnect ~> /\ uplink_pc = "done"
                  /\ dispatch_pc = "done"
                  /\ chd = "done"
                  /\ cur \in TwoStage => stage2 = "done"

\* the flag was set while every task was running, and every task has ended
C30_Witness ==
    /\ disconnect
    /\ link = "open"
    /\ uplink_pc = "done"
    /\ dispatch_pc = "done"
    /\ chd = "done"
    /\ cur \in TwoStage
    /\ stage2 = "done"

(***************************************************************************)
(* C33: whatever the cache holds under a key was stored by a discovery     *)
(* that fetched and parsed every item 0..item_count-1 and returned Ok with *)
(* that TOC; a discovery that failed at an item has stored nothing.        *)
(***************************************************************************)
C33_StoreOnlyAfterAllItems ==
    \A key \in DOMAIN toc_cache :
        toc_cache[key] # None =>
            /\ {e.id : e \in toc_cache[key][1]} = 0..(MaxItems - 1)
            /\ \E r \in tdone : /\ r.key = key
                                /\ r.res = "Ok"
                                /\ ~r.hit
                                /\ r.toc = toc_cache[key][1]

\* a discovery has failed at an item and its key has no cache entry, while a
\* complete discovery has stored its TOC under another key
C33_Witness ==
    /\ \E r \in tdone : r.res \notin {"Ok"} /\ ~r.hit /\ toc_cache[r.key] = None
    /\ \E key \in DOMAIN toc_cache : toc_cache[key] # None

(***************************************************************************)
(* Connection set-up: Crazyflie::connect_from_link after the uplink pump   *)
(* and the downlink dispatcher have been spawned.  Specification           *)
(* SpecConnect; FairSpecConnect adds the scheduler's fairness.             *)
(***************************************************************************)
\* the errors connect_from_link returns after the tasks were spawned
ConnectErrors == {"ProtocolVersionNotSupported", "TocError"}

notConnect == <<paramVars, reqVars, logVars, memVars, tocVars, pureVars, consoleVars, supVars,
               addVars, routeVars, uplinkVars, miscVars, discoverVars, persistVars>>

\* a request of the set-up goes on the uplink queue (platform.protocol_version(),
\* then the TOC fetches of Log::new and Param::new)
ConnectSend(from, to) ==
    /\ cn = from
    /\ rp = "none"
    /\ cn' = to
    /\ rp' = "upq"
    /\ uplink_q' = Append(uplink_q, cur)
    /\ UNCHANGED <<disconnect, link, closeCalls, uplink_task, dispatch_task, task_lock,
                   joins, uplink_pc, dispatch_pc, link_rx, dc_pc, dc_started, dc_done, cur>>
    /\ UNCHANGED <<chd, stage2, op, values_c, sup_cached, sup_fresh>>
    /\ UNCHANGED notConnect

\* let protocol_version = platform.protocol_version().await?;
\* if !(SUPPORTED..=(SUPPORTED + 1)).contains(&protocol_version) { return Err(..) }
\* supported: the version the device reported lies in the supported range
ConnectVersion(supported) ==
    /\ cn = "version_wait"
    /\ rp = "chan"
    /\ rp' = "none"
    /\ cn' = IF supported
             THEN "toc"
             ELSE "ProtocolVersionNotSupported"
    /\ UNCHANGED connVars
    /\ UNCHANGED <<chd, stage2, op, values_c, sup_cached, sup_fresh>>
    /\ UNCHANGED notConnect

\* Ok(Crazyflie { log: log?, param: param?, .. })
ConnectToc(ok) ==
    /\ cn = "toc_wait"
    /\ rp = "chan"
    /\ rp' = "none"
    /\ cn' = IF ok THEN "ok" ELSE "TocError"
    /\ UNCHANGED connVars
    /\ UNCHANGED <<chd, stage2, op, values_c, sup_cached, sup_fresh>>
    /\ UNCHANGED notConnect

InitConnect ==
    /\ InitConnVars
    /\ cur = "connect"
    /\ InitOpVars
    /\ InitParamVars
    /\ InitReqVars
    /\ InitLogVars
    /\ InitMemVars
    /\ InitTocVars
    /\ InitPureVars
    /\ InitConsoleVars
    /\ InitSupVars
    /\ cn = "version"
    /\ InitAddVars
    /\ InitRouteVars
    /\ InitUplinkVars
    /\ InitMiscVars
    /\ InitDiscoverVars
    /\ InitPersistVars

NextConnect ==
    \/ ConnectSend("version", "version_wait")
    \/ ConnectSend("toc", "toc_wait")
    \/ \E supported \in BOOLEAN : ConnectVersion(supported)
    \/ \E ok \in BOOLEAN : ConnectToc(ok)
    \/ LinkLost
    \/ UplinkLoop
    \/ UplinkRecv
    \/ DispatchLoop
    \/ DispatchRecv
    \/ DeviceReply
    \/ ChannelDispatch

SpecConnect == InitConnect /\ [][NextConnect]_vars

\* The scheduler runs the two spawned tasks whenever they can step.
FairSpecConnect ==
    /\ SpecConnect
    /\ WF_vars(UplinkLoop)
    /\ WF_vars(UplinkRecv)
    /\ WF_vars(DispatchLoop)
    /\ WF_vars(DispatchRecv)

\* C31: once connect_from_link has returned an error after spawning the
\* tasks, the uplink pump and the downlink dispatcher both terminate.
C31_TasksEndAfterFailedConnect ==
    (cn \in ConnectErrors) ~> (uplink_pc = "done" /\ dispatch_pc = "done")

(***************************************************************************)
(* LogBlock::add_variable on one block the device holds, and the list      *)
(* decode_packet walks.  Specification SpecAdd.                            *)
(***************************************************************************)
\* the log TOC: name -> variable id
LogToc == [roll |-> 0, yaw |-> 1]

\* the names the application passes; "none" is not in the TOC
AddNames == {"roll", "yaw", "none"}

\* the id of every entry of the local list, in order
VariableIds(vs) == [i \in 1..Len(vs) |-> LogToc[vs[i]]]

notAdd == <<baseVars, connectVars, routeVars, uplinkVars, miscVars, discoverVars,
  persistVars>>

\* add_variable(name) up to wait_packet: the TOC lookup, then the request
AddVariable(name) ==
    /\ av.pc = "idle"
    /\ av.calls < MaxAdds
    /\ IF name \notin DOMAIN LogToc
       THEN \* toc.get(name).ok_or(Error::VariableNotFound)?
            /\ av' = [pc |-> "idle", name |-> name, res |-> "VariableNotFound",
                      calls |-> av.calls + 1]
            /\ UNCHANGED av_uplink
       ELSE /\ av' = [pc |-> "wait", name |-> name, res |-> "none",
                      calls |-> av.calls + 1]
            /\ av_uplink' = Append(av_uplink, <<APPEND_BLOCK_V2, 0, LogToc[name]>>)
    /\ UNCHANGED <<variables, dev_variables, av_downlink>>
    /\ UNCHANGED notAdd

\* the answer arrives: length test, status byte, then the push
PushVariable(vs, name) == Append(vs, name)

AddRecv ==
    /\ av.pc = "wait"
    /\ av_downlink # <<>>
    /\ av_downlink' = Tail(av_downlink)
    /\ LET answer == Head(av_downlink) IN
       IF Len(answer) # 3
       THEN /\ av' = [av EXCEPT !.pc = "idle", !.res = "ProtocolError"]
            /\ UNCHANGED variables
       ELSE IF answer[3] # 0
            THEN /\ av' = [av EXCEPT !.pc = "idle", !.res = "LogError"]
                 /\ UNCHANGED variables
            ELSE /\ av' = [av EXCEPT !.pc = "idle", !.res = "Ok"]
                 /\ variables' = PushVariable(variables, av.name)
    /\ UNCHANGED <<dev_variables, av_uplink>>
    /\ UNCHANGED notAdd

\* the caller drops the add_variable() future while it waits for the answer
AddCancel ==
    /\ av.pc = "wait"
    /\ av' = [av EXCEPT !.pc = "idle", !.res = "cancelled"]
    /\ UNCHANGED <<variables, dev_variables, av_uplink, av_downlink>>
    /\ UNCHANGED notAdd

\* the device handles an append request: it appends the variable and
\* answers 0, or refuses with a status (ENOMEM = 12), or its answer reaches
\* the library with a length other than 3
DevAppend(kind, appended) ==
    /\ av_uplink # <<>>
    /\ av_uplink' = Tail(av_uplink)
    /\ kind = "ok" => appended
    /\ kind = "error" => ~appended
    /\ LET pk == Head(av_uplink) IN
       /\ dev_variables' = IF appended THEN Append(dev_variables, pk[3])
                           ELSE dev_variables
       /\ av_downlink' = Append(av_downlink,
                                CASE kind = "ok" -> <<pk[1], pk[2], 0>>
                                  [] kind = "error" -> <<pk[1], pk[2], 12>>
                                  [] OTHER -> <<pk[1], pk[2]>>)
    /\ UNCHANGED <<av, variables>>
    /\ UNCHANGED notAdd

InitAdd ==
    /\ InitConnVars
    /\ cur = "add_variable"
    /\ InitOpVars
    /\ InitParamVars
    /\ InitReqVars
    /\ InitLogVars
    /\ InitMemVars
    /\ InitExtVars

NextAdd ==
    \/ \E name \in AddNames : AddVariable(name)
    \/ AddRecv
    \/ AddCancel
    \/ \E kind \in {"ok", "error", "short"} : \E appended \in BOOLEAN :
           DevAppend(kind, appended)

SpecAdd == InitAdd /\ [][NextAdd]_vars

\* C32: whenever no add_variable() call is running and the device has
\* handled every request, the local list names exactly the variables the
\* device has appended to the block, in the same order.
C32_LocalListIsDeviceList ==
    (av.pc = "idle" /\ av_uplink = <<>>) => VariableIds(variables) = dev_variables

(***************************************************************************)
(* Inbound routing: CrtpDispatch::run sends a packet to the channel of its *)
(* port, crtp_channel_dispatcher sends it on to the channel of its CRTP    *)
(* channel.  Specification SpecRoute.                                      *)
(***************************************************************************)
\* the ports and channels of the packets the link delivers: two registered
\* ports and one without a receiver; two channels of the header and one
\* value past them
RoutePorts == RegPorts \cup {GENERIC_SETPOINT_PORT}

RouteChannels == {0, 1, 4}

\* for _ in 0..4 { senders.push(tx); receivers.insert(0, rx); }
RECURSIVE Receivers(_)
Receivers(n) == IF n = 0 THEN <<>> ELSE <<n - 1>> \o Receivers(n - 1)

\* the j-th receivers.pop().unwrap() of the returned tuple, j = 0..3: the
\* index of the sender whose receiver it is
Popped(j) == Receivers(4)[4 - j]

\* the tuple positions a subsystem binds: Platform::new keeps the version
\* and app-channel receivers, Param::new keeps all four
Kept(p) == IF p = PLATFORM_PORT THEN {1, 2} ELSE 0..3

\* the receiver of senders[i] of port p still exists
ChanRxAlive(p, i) == \E j \in Kept(p) : Popped(j) = i

WrongSender(c) == (c + 1) % 4

\* senders[pk.get_channel() as usize]
SenderIndex(c) == c

notRoute == <<baseVars, connectVars, addVars, uplinkVars, miscVars, discoverVars,
  persistVars>>

\* the link receives a packet from the device
LinkReceive(p, c) ==
    /\ rt_link = "open"
    /\ Cardinality(rt_all) < MaxInbound
    /\ LET pk == [port |-> p, channel |-> c, n |-> Cardinality(rt_all)] IN
       /\ rt_in' = Append(rt_in, pk)
       /\ rt_all' = rt_all \cup {pk}
    /\ UNCHANGED <<rt_link, port_rx, chan_rx, rt_pc>>
    /\ UNCHANGED notRoute

\* the link is closed or lost
LinkClose ==
    /\ rt_link = "open"
    /\ rt_link' = "closed"
    /\ UNCHANGED <<rt_in, rt_all, port_rx, chan_rx, rt_pc>>
    /\ UNCHANGED notRoute

\* CrtpDispatch::run, one turn of the loop that is not a timeout
RouteDispatch ==
    /\ rt_pc.dispatch = "run"
    /\ IF rt_in # <<>>
       THEN LET packet == Head(rt_in) IN
            /\ rt_in' = Tail(rt_in)
            /\ port_rx' = IF packet.port < 16 /\ packet.port \in DOMAIN port_rx
                          THEN [port_rx EXCEPT ![packet.port] = Append(@, packet)]
                          ELSE port_rx
            /\ UNCHANGED rt_pc
       ELSE \* Ok(Err(_)) => return
            /\ rt_link = "closed"
            /\ rt_pc' = [rt_pc EXCEPT !.dispatch = "done"]
            /\ UNCHANGED <<rt_in, port_rx>>
    /\ UNCHANGED <<rt_link, rt_all, chan_rx>>
    /\ UNCHANGED notRoute

\* the crtp_channel_dispatcher task of port p, one turn of its loop
FanOut(p) ==
    /\ rt_pc.fan[p] = "run"
    /\ IF port_rx[p] # <<>>
       THEN LET pk == Head(port_rx[p]) IN
            /\ port_rx' = [port_rx EXCEPT ![p] = Tail(@)]
            /\ chan_rx' = IF pk.channel < 4 /\ ChanRxAlive(p, SenderIndex(pk.channel))
                          THEN [chan_rx EXCEPT ![p][SenderIndex(pk.channel)] =
                                                   Append(@, pk)]
                          ELSE chan_rx
            /\ UNCHANGED rt_pc
       ELSE \* recv_async() is Err: the port sender went with the dispatcher
            /\ rt_pc.dispatch = "done"
            /\ rt_pc' = [rt_pc EXCEPT !.fan[p] = "done"]
            /\ UNCHANGED <<port_rx, chan_rx>>
    /\ UNCHANGED <<rt_link, rt_in, rt_all>>
    /\ UNCHANGED notRoute

InitRoute ==
    /\ InitConnVars
    /\ cur = "route"
    /\ InitOpVars
    /\ InitParamVars
    /\ InitReqVars
    /\ InitLogVars
    /\ InitMemVars
    /\ InitExtVars

NextRoute ==
    \/ \E p \in RoutePorts : \E c \in RouteChannels : LinkReceive(p, c)
    \/ LinkClose
    \/ RouteDispatch
    \/ \E p \in RegPorts : FanOut(p)

SpecRoute == InitRoute /\ [][NextRoute]_vars

\* the packet is in no queue on the way: both tasks are done with it
Routed(pk) ==
    /\ \A i \in 1..Len(rt_in) : rt_in[i] # pk
    /\ \A p \in RegPorts : \A i \in 1..Len(port_rx[p]) : port_rx[p][i] # pk

\* the channels, by port and tuple position, that hold the packet
HeldBy(pk) ==
    {<<p, j>> \in RegPorts \X (0..3) :
        \E i \in 1..Len(chan_rx[p][Popped(j)]) : chan_rx[p][Popped(j)][i] = pk}

\* the number of copies of the packet in all the channels
Copies(pk) ==
    Cardinality({<<p, s, i>> \in RegPorts \X (0..3) \X (1..MaxInbound) :
                    i <= Len(chan_rx[p][s]) /\ chan_rx[p][s][i] = pk})

\* a task has ended only because the link was closed
TasksKeepRunning ==
    /\ rt_pc.dispatch = "done" => rt_link = "closed"
    /\ \A p \in RegPorts : rt_pc.fan[p] = "done" => rt_pc.dispatch = "done"

\* C34 (as stated): every routed packet of a registered port p and a
\* channel c < 4 is in exactly one channel, the one the subsystem of p
\* receives as its channel c; every other packet is in none; and no task
\* has stopped while the link is open.
C34_DeliveredToChannelReceiver ==
    /\ \A pk \in rt_all :
         Routed(pk) =>
           IF pk.port \in RegPorts /\ pk.channel < 4
           THEN HeldBy(pk) = {<<pk.port, pk.channel>>} /\ Copies(pk) = 1
           ELSE HeldBy(pk) = {}
    /\ TasksKeepRunning

\* C34 (amended): the same for the channels whose receiver the subsystem
\* keeps; a packet for a receiver the subsystem has discarded is dropped
\* like a packet of an unregistered port, and no task stops.
C34_DeliveredToKeptReceiver ==
    /\ \A pk \in rt_all :
         Routed(pk) =>
           IF pk.port \in RegPorts /\ pk.channel < 4 /\ pk.channel \in Kept(pk.port)
           THEN HeldBy(pk) = {<<pk.port, pk.channel>>} /\ Copies(pk) = 1
           ELSE HeldBy(pk) = {}
    /\ TasksKeepRunning

\* a packet was delivered, one of an unregistered port, one of channel 4 and
\* one for a discarded receiver were dropped, and the dispatcher still runs
C34_Witness ==
    /\ \E pk \in rt_all : Routed(pk) /\ HeldBy(pk) # {}
    /\ \E pk \in rt_all : Routed(pk) /\ pk.port \notin RegPorts
    /\ \E pk \in rt_all : Routed(pk) /\ pk.port \in RegPorts
                          /\ (pk.channel >= 4 \/ pk.channel \notin Kept(pk.port))
    /\ rt_pc.dispatch = "run"
    /\ rt_link = "open"

(***************************************************************************)
(* The uplink queue with every packet told apart by its sending task and   *)
(* its number.  Specification SpecUplink.                                  *)
(***************************************************************************)
notUplink == <<baseVars, connectVars, addVars, routeVars, miscVars, discoverVars,
  persistVars>>

\* uplink.send_async(pk) by task t: it fails once the uplink task has
\* returned and dropped the receiver
Enqueue(t) ==
    /\ up_n[t] < MaxEnqueue
    /\ up_n' = [up_n EXCEPT ![t] = @ + 1]
    /\ up_q' = IF up_pc = "done" THEN up_q
               ELSE Append(up_q, [task |-> t, n |-> up_n[t]])
    /\ UNCHANGED <<up_tx, up_pc, up_flag, up_link>>
    /\ UNCHANGED notUplink

\* while !disconnect_uplink.load(Relaxed)
PumpLoop ==
    /\ up_pc = "loop"
    /\ up_pc' = IF up_flag THEN "done" ELSE "recv"
    /\ up_q' = IF up_flag THEN <<>> ELSE up_q
    /\ UNCHANGED <<up_tx, up_n, up_flag, up_link>>
    /\ UNCHANGED notUplink

TakenLast(q) == q[Len(q)]

\* Ok(Ok(pk)): the message recv_async() yields
Taken(q) == Head(q)

\* match timeout(100 ms, rx.recv_async()).await
PumpRecv ==
    /\ up_pc = "recv"
    /\ IF up_q # <<>>
       THEN IF up_link = "open"
            THEN \* link_uplink.send_packet(pk)
                 /\ up_tx' = Append(up_tx, Taken(up_q))
                 /\ up_q' = Tail(up_q)
                 /\ up_pc' = "loop"
            ELSE \* send_packet(pk).await.is_err(): return
                 /\ up_pc' = "done"
                 /\ up_q' = <<>>
                 /\ UNCHANGED up_tx
       ELSE \* Err(_): the timeout
            /\ up_pc' = "loop"
            /\ UNCHANGED <<up_q, up_tx>>
    /\ UNCHANGED <<up_n, up_flag, up_link>>
    /\ UNCHANGED notUplink

\* disconnect() or Drop stores the flag
UplinkDisconnect ==
    /\ ~up_flag
    /\ up_flag' = TRUE
    /\ UNCHANGED <<up_q, up_tx, up_n, up_pc, up_link>>
    /\ UNCHANGED notUplink

\* the radio link is lost
UplinkLinkLost ==
    /\ up_link = "open"
    /\ up_link' = "lost"
    /\ UNCHANGED <<up_q, up_tx, up_n, up_pc, up_flag>>
    /\ UNCHANGED notUplink

InitUplink ==
    /\ InitConnVars
    /\ cur = "uplink"
    /\ InitOpVars
    /\ InitParamVars
    /\ InitReqVars
    /\ InitLogVars
    /\ InitMemVars
    /\ InitExtVars

NextUplink ==
    \/ \E t \in Callers : Enqueue(t)
    \/ PumpLoop
    \/ PumpRecv
    \/ UplinkDisconnect
    \/ UplinkLinkLost

SpecUplink == InitUplink /\ [][NextUplink]_vars

\* C35: among the packets handed to the link, those of one task appear in
\* the order that task enqueued them, and none appears twice.
C35_UplinkFifoPerTask ==
    \A i, j \in 1..Len(up_tx) :
        (i < j /\ up_tx[i].task = up_tx[j].task) => up_tx[i].n < up_tx[j].n

\* both tasks have had all their packets handed to the link, interleaved
C35_Witness ==
    /\ Len(up_tx) = 2 * MaxEnqueue
    /\ up_tx[1].task # up_tx[2].task
    /\ up_q = <<>>

(***************************************************************************)
(* The param MISC listener on raw payloads: one parameter, id 0, type u8.  *)
(* No watcher is registered.  Specification SpecMisc.                      *)
(***************************************************************************)
\* the payloads the device sends: a good update, a command response, an
\* empty payload, updates of 1 and 2 bytes, an update of an unknown id, and
\* updates whose value is 0 and 2 bytes wide
MiscFrames == {<<1, 0, 0, 7>>, <<MISC_PERSISTENT_GET_STATE, 0, 0, 0>>, <<>>, <<1>>,
               <<1, 0>>, <<1, 9, 0, 7>>, <<1, 0, 0>>, <<1, 0, 0, 7, 7>>}

notMisc == <<baseVars, connectVars, addVars, routeVars, uplinkVars, discoverVars,
  persistVars>>

\* pk.get_data()[a..b]: defined when a <= b <= len, a panic otherwise
SliceOk(d, a, b) == a <= b /\ b <= Len(d)

\* u16::from_le_bytes(pk.get_data()[1..3])
ParamId(d) == d[2] + 256 * d[3]

\* toc.iter().find(|v| v.1 .0 == param_id): the TOC holds id 0 only
InToc(id) == id = 0

\* Value::from_le_bytes(&pk.get_data()[3..], U8) is Ok: exactly one byte
ValueOk(d) == Len(d) - 3 = 1

\* the device sends a payload on the MISC channel of the param port
MiscFrame(d) ==
    /\ mf_n < MaxFrames
    /\ mf_n' = mf_n + 1
    /\ mf_in' = Append(mf_in, d)
    /\ UNCHANGED <<mf_pc, mf_values, mf_cmd>>
    /\ UNCHANGED notMisc

\* one turn of `while let Ok(pk) = misc_downlink.recv_async().await`
MiscListen ==
    /\ mf_pc = "run"
    /\ mf_in # <<>>
    /\ mf_in' = Tail(mf_in)
    /\ LET d == Head(mf_in) IN
       IF Len(d) >= 1 /\ d[1] = MISC_VALUE_UPDATED
       THEN IF ~SliceOk(d, 1, 3)
            THEN \* the slice index panics: the task is gone
                 /\ mf_pc' = "panicked"
                 /\ UNCHANGED <<mf_values, mf_cmd>>
            ELSE /\ mf_values' = IF InToc(ParamId(d)) /\ ValueOk(d)
                                 THEN Some(d[4])
                                 ELSE mf_values
                 /\ UNCHANGED <<mf_pc, mf_cmd>>
       ELSE \* let _ = misc_cmd_tx.send_async(pk).await
            /\ mf_cmd' = Append(mf_cmd, d)
            /\ UNCHANGED <<mf_pc, mf_values>>
    /\ UNCHANGED mf_n
    /\ UNCHANGED notMisc

InitMisc ==
    /\ InitConnVars
    /\ cur = "misc"
    /\ InitOpVars
    /\ InitParamVars
    /\ InitReqVars
    /\ InitLogVars
    /\ InitMemVars
    /\ InitExtVars

NextMisc ==
    \/ \E d \in MiscFrames : MiscFrame(d)
    \/ MiscListen

SpecMisc == InitMisc /\ [][NextMisc]_vars

\* C36: whatever frames it has been sent, the MISC listener is still
\* running, so that later updates reach the cache and later command
\* responses reach the waiting command.
C36_ListenerKeepsRunning == mf_pc = "run"

(***************************************************************************)
(* Memory discovery and open_memory: Memory::update_memories fills the two *)
(* Vecs from the INFO replies, open_memory indexes backends by memory_id.  *)
(* Specification SpecDiscover.                                             *)
(***************************************************************************)
\* the memory type bytes the device reports (EEPROMConfig, OneWire, Loco)
MemTypeBytes == {0, 1, 17}

notDiscover == <<baseVars, connectVars, addVars, routeVars, uplinkVars, miscVars,
  persistVars>>

\* update_memories: the CMD_INFO_NBR request
DiscoverStart ==
    /\ md.pc = "start"
    /\ md' = [md EXCEPT !.pc = "nbr"]
    /\ md_uplink' = Append(md_uplink, <<CMD_INFO_NBR>>)
    /\ UNCHANGED <<memories, md_backends, md_downlink, loans>>
    /\ UNCHANGED notDiscover

\* the request of the next turn of `for i in 0..memory_count`, or Ok(())
DiscoverNext(i, count) ==
    IF i < count THEN [pc |-> "details", i |-> i, count |-> count]
    ELSE [pc |-> "done", i |-> i, count |-> count]

RequestsAfter(i, count) ==
    IF i < count THEN Append(md_uplink, <<CMD_INFO_DETAILS, i>>) ELSE md_uplink

\* wait_packet(MEMORY_PORT, INFO_CHANNEL, &[CMD_INFO_NBR]) returns
DiscoverCount ==
    /\ md.pc = "nbr"
    /\ md_downlink # <<>>
    /\ md_downlink' = Tail(md_downlink)
    /\ LET data == Head(md_downlink) IN
       IF data[1] = CMD_INFO_NBR
       THEN /\ md' = DiscoverNext(0, data[2])
            /\ md_uplink' = RequestsAfter(0, data[2])
       ELSE UNCHANGED <<md, md_uplink>>
    /\ UNCHANGED <<memories, md_backends, loans>>
    /\ UNCHANGED notDiscover

TypeAsId(data) == data[3]

\* let memory_id = data[1];
MemoryId(data) == data[2]

\* wait_packet(MEMORY_PORT, INFO_CHANNEL, &[CMD_INFO_DETAILS, i]): a reply of
\* another prefix is skipped; the matching one is pushed onto both Vecs
DiscoverDetails ==
    /\ md.pc = "details"
    /\ md_downlink # <<>>
    /\ md_downlink' = Tail(md_downlink)
    /\ LET data == Head(md_downlink) IN
       IF data[1] = CMD_INFO_DETAILS /\ data[2] = md.i
       THEN /\ memories' = Append(memories, [memory_id |-> MemoryId(data),
                                              memory_type |-> data[3]])
            /\ md_backends' = Append(md_backends,
                                     Some([memory_id |-> MemoryId(data),
                                           memory_type |-> data[3]]))
            /\ md' = DiscoverNext(md.i + 1, md.count)
            /\ md_uplink' = RequestsAfter(md.i + 1, md.count)
       ELSE UNCHANGED <<md, memories, md_backends, md_uplink>>
    /\ UNCHANGED loans
    /\ UNCHANGED notDiscover

\* the device answers an INFO request: the number of memories, or the
\* details of the memory asked for, after a repeated copy of the details of
\* another memory if `repeat` says so
DevInfo(count, type, repeat) ==
    /\ md_uplink # <<>>
    /\ md_uplink' = Tail(md_uplink)
    /\ LET req == Head(md_uplink) IN
       md_downlink' =
           IF req[1] = CMD_INFO_NBR
           THEN Append(md_downlink, <<CMD_INFO_NBR, count>>)
           ELSE (IF repeat /\ req[2] > 0
                 THEN Append(md_downlink, <<CMD_INFO_DETAILS, req[2] - 1, type>>)
                 ELSE md_downlink) \o <<<<CMD_INFO_DETAILS, req[2], type>>>>
    /\ UNCHANGED <<md, memories, md_backends, loans>>
    /\ UNCHANGED notDiscover

\* open_memory(memory): self.backends.get(memory.memory_id as usize)?
\*                          .lock().await.take()?
OpenDiscovered(k) ==
    /\ md.pc = "done"
    /\ k \in 1..Len(memories)
    /\ LET memory == memories[k]
           idx == memory.memory_id + 1 IN
       /\ idx <= Len(md_backends)
       /\ md_backends[idx] # None
       /\ md_backends' = [md_backends EXCEPT ![idx] = None]
       /\ loans' = loans \cup {[device |-> memory, backend |-> md_backends[idx][1]]}
    /\ UNCHANGED <<md, memories, md_uplink, md_downlink>>
    /\ UNCHANGED notDiscover

InitDiscover ==
    /\ InitConnVars
    /\ cur = "open_memory"
    /\ InitOpVars
    /\ InitParamVars
    /\ InitReqVars
    /\ InitLogVars
    /\ InitMemVars
    /\ InitExtVars

NextDiscover ==
    \/ DiscoverStart
    \/ DiscoverCount
    \/ DiscoverDetails
    \/ \E count \in 1..MaxMems : \E type \in MemTypeBytes : \E repeat \in BOOLEAN :
           DevInfo(count, type, repeat)
    \/ \E k \in 1..MaxMems : OpenDiscovered(k)

SpecDiscover == InitDiscover /\ [][NextDiscover]_vars

\* C37: every backend open_memory(d) has loaned carries the memory_id and
\* the memory type of d.
C37_LoanedBackendMatches ==
    \A l \in loans : l.backend = l.device

\* two memories of different types were discovered, the second after a
\* repeated reply had been skipped, and the second one has been opened
C37_Witness ==
    /\ Len(memories) = 2
    /\ memories[1].memory_type # memories[2].memory_type
    /\ md_downlink = <<>>
    /\ \E l \in loans : l.device = memories[2]

(***************************************************************************)
(* Lighthouse::persist_lighthouse_data and the localization task that      *)
(* broadcasts the confirmations.  Specification SpecPersist.               *)
(***************************************************************************)
notPersist == <<baseVars, connectVars, addVars, routeVars, uplinkVars, miscVars,
                discoverVars>>

\* persist_broadcast.broadcast(success) in overflow mode on a receiver's queue
PersistBroadcast(q, m) == IF Len(q) >= PERSIST_CAP THEN Tail(q) \o <<m>> ELSE q \o <<m>>

\* self.send_lh_persist_data_packet(geo_list, calib_list).await?
PersistSend ==
    /\ lh.pc = "idle"
    /\ lh.n < MaxPersist
    /\ lh' = [pc |-> "sent", n |-> lh.n + 1, res |-> "none", from |-> 0]
    /\ lh_uplink' = Append(lh_uplink, lh.n + 1)
    /\ UNCHANGED <<persist_receiver, lh_clone, lh_downlink>>
    /\ UNCHANGED notPersist

\* Receiver::clone: the clone has the same messages queued
ClonedReceiver(q) == q

\* let mut receiver = self.persist_receiver.clone();
PersistClone ==
    /\ lh.pc = "sent"
    /\ lh' = [lh EXCEPT !.pc = "wait"]
    /\ lh_clone' = ClonedReceiver(persist_receiver)
    /\ UNCHANGED <<persist_receiver, lh_uplink, lh_downlink>>
    /\ UNCHANGED notPersist

\* timeout(5 s, receiver.recv()): the first queued message, or Timeout
PersistRecv ==
    /\ lh.pc = "wait"
    /\ lh' = IF lh_clone # <<>>
             THEN \* Ok(Ok(success)) => Ok(success)
                  [lh EXCEPT !.pc = "idle",
                             !.res = IF Head(lh_clone).ok THEN "Ok(true)" ELSE "Ok(false)",
                             !.from = Head(lh_clone).req]
             ELSE \* Err(_) => Err(Error::Timeout)
                  [lh EXCEPT !.pc = "idle", !.res = "Timeout"]
    /\ lh_clone' = <<>>
    /\ UNCHANGED <<persist_receiver, lh_uplink, lh_downlink>>
    /\ UNCHANGED notPersist

\* the device persists the data and confirms, or never answers
DevPersist(success, answers) ==
    /\ lh_uplink # <<>>
    /\ lh_uplink' = Tail(lh_uplink)
    /\ lh_downlink' = IF answers
                      THEN Append(lh_downlink, [req |-> Head(lh_uplink), ok |-> success])
                      ELSE lh_downlink
    /\ UNCHANGED <<lh, persist_receiver, lh_clone>>
    /\ UNCHANGED notPersist

\* the localization task, LH_PERSIST_DATA: the confirmation is broadcast to
\* every receiver that exists
LocalizationTask ==
    /\ lh_downlink # <<>>
    /\ lh_downlink' = Tail(lh_downlink)
    /\ persist_receiver' = PersistBroadcast(persist_receiver, Head(lh_downlink))
    /\ lh_clone' = IF lh.pc = "wait" THEN PersistBroadcast(lh_clone, Head(lh_downlink))
                   ELSE lh_clone
    /\ UNCHANGED <<lh, lh_uplink>>
    /\ UNCHANGED notPersist

InitPersist ==
    /\ InitConnVars
    /\ cur = "persist_lighthouse_data"
    /\ InitOpVars
    /\ InitParamVars
    /\ InitReqVars
    /\ InitLogVars
    /\ InitMemVars
    /\ InitExtVars

NextPersist ==
    \/ PersistSend
    \/ PersistClone
    \/ PersistRecv
    \/ \E success \in BOOLEAN : \E answers \in BOOLEAN : DevPersist(success, answers)
    \/ LocalizationTask

SpecPersist == InitPersist /\ [][NextPersist]_vars

\* C38: a confirmation returned by persist_lighthouse_data answers the
\* request of that same call.
C38_ReturnsOwnConfirmation ==
    (lh.pc = "idle" /\ lh.res \in {"Ok(true)", "Ok(false)"}) => lh.from = lh.n

=============================================================================
